---- MODULE Spec2Model ----
(***************************************************************************)
(* Model of the test-execution orchestrator:                               *)
(*   - run_test_case of the web, API and mobile drivers (DriverSpec),      *)
(*   - the retry / self-heal loop of MCPBase.run (McpSpec),                *)
(*   - the locator repositories' add_locator / get_locator (LocatorSpec),  *)
(*   - add_locator called from several threads (LocatorConcSpec),          *)
(*   - VersionManager.add_version / get_test_cases (VersionSpec),          *)
(*   - MCPRouter._classify and the type dispatch of _get_mcp               *)
(*     (ClassifySpec),                                                     *)
(*   - MCPRouter.run_all, sequential and on the worker pool, with the lazy *)
(*     construction of the backends in _get_mcp (RouterSpec).              *)
(* Each specification leaves the other parts' variables at their initial   *)
(* values.                                                                 *)
(***************************************************************************)
EXTENDS Integers, Sequences, FiniteSets, TLC

\* ------------------------------------------------------------- bounds
\* longest step list of a test case
MaxSteps == 3
\* largest mcp.max_retries explored
MaxRetriesBound == 2
\* cap on the _execute_step invocations of one step (the loop itself has none)
MaxExec == 4
\* number of add_locator calls explored
MaxAdds == 3
\* longest step list given to MCPBase.run
McpSteps == 2
\* number of add_locator calls made by the threads of the worker pool
MaxConcCalls == 3
\* number of add_version calls explored
MaxVersionCalls == 3
\* largest batch given to MCPRouter.run_all
MaxBatch == 3
\* largest max_workers of the worker pool
MaxWorkers == 2
\* cap on the UIMCP._execute_step invocations of one step
MaxUiCalls == 3
\* largest llm_retries explored
MaxLlmRetries == 2
\* longest spinners list and longest overlays list of the wait repository
MaxIndicators == 2
\* run requests received by the dashboard
MaxRuns == 2
\* test cases of one version
MaxRunCases == 2

VARIABLES
    \* --- drivers' run_test_case
    driver,         \* which driver runs the case: "web", "api" or "mobile"
    steps,          \* case["steps"]: sequence of [depends_on : {} or {i}]
    dpc,            \* position in run_test_case
    test_run,       \* status column of the test_runs row ("none" before insert)
    run_updates,    \* number of UPDATE test_runs statements executed
    run_steps,      \* run_steps rows of this run: [step_index, status, message]
    passed_steps, failed_steps, skipped_steps,
    invoked,        \* step indices for which _execute_step was called
    exec_calls,     \* number of _execute_step calls made by run_test_case
    \* --- MCPBase.run
    max_retries,    \* self.max_retries
    heal_backend,   \* TRUE when the backend overrides _self_heal (UI, mobile)
    nsteps,         \* len(steps) of the list given to run
    midx,           \* idx of the for loop
    attempt,        \* the attempt counter of the current step
    mpc,            \* position in run
    execs,          \* per step: number of _execute_step invocations
    unhealed,       \* per step: failures whose heal did not succeed
    healed,         \* per step: failures whose heal succeeded
    evidence,       \* the reporter.attach_text calls made by run: [step, attempt]
    sleeps,         \* number of time.sleep calls
    exhausted,      \* steps whose retries were exhausted
    invalid,        \* steps lacking a required field ('command', 'action')
    last_heal,      \* how the _self_heal call of the current except block ended
    raised_exc,     \* the exception run has raised: "execute_step", "self_heal"
    \* --- locator repository
    impl,           \* "LocatorRepo" or "LocatorRepository"
    locators,       \* rows of table locators, in id order
    clock,          \* logical time of the next add_locator call
    last_add,       \* the latest add_locator call and how it ended
    prev_locators,  \* the table as it was before the latest add_locator call
    \* --- add_locator on the worker pool
    owner,          \* the thread that constructed the repository (sqlite3.connect)
    cpc,            \* per thread: position in add_locator
    cargs,          \* per thread: the arguments of its add_locator call
    cnext,          \* per thread: its local next_version
    cres,           \* per thread: how its latest add_locator call ended
    cursor,         \* pending result set of the shared self.cursor
    ccalls,         \* number of add_locator calls started
    \* --- VersionManager
    versions,       \* rows of table test_set_versions, in id order
    prev_versions,  \* the table as it was before the latest add_version call
    vcalls,         \* the add_version calls made so far, with what they returned
    \* --- MCPRouter._classify
    tc_type,        \* tc.type as a string of characters; <<>> models None or ''
    llm,            \* self.llm: absent, or how its classify call ends
    combined_text,  \* the joined JSON text of tc.steps
    keywords_map,   \* the configured router.*_keywords, per category
    mcp_type,       \* what _classify returned
    kpc,            \* position in run_test_case
    \* --- MCPRouter.run_all
    pooled,         \* use_concurrency = bool(self.executor)
    max_workers,    \* TestExecutor.max_workers (0 without executor)
    batch,          \* per case of test_cases: the type _classify gives it
    rapc,           \* position of run_all
    ridx,           \* index of run_all's current loop (1-based)
    task,           \* per case: position of its run_test_case call
    inst,           \* per case: the backend instance _get_mcp returned (0: none)
    mcp_field,      \* per type: self._<type>_mcp (0 models None)
    constructed,    \* per type: number of backend instances constructed
    runs,           \* per case: number of run_test_case calls
    slack,          \* per case: send_slack_alert calls made for it
    email,          \* per case: send_email_alert calls made for it
    \* --- UI steps: UIMCP and WebDriver
    uicomp,         \* which component executes the step: "UIMCP" or "WebDriver"
    ui_cfg,         \* UIMCP configuration: ui.self_heal, AI recovery, vision fallback, mcp.max_retries
    ui_step,        \* the step UIMCP runs: its action and the kind of its target
    upc,            \* position of MCPBase.run for that step
    ui_attempt,     \* MCPBase.run's attempt counter
    ui_calls,       \* number of _execute_step invocations so far
    ui_last,        \* the latest _execute_step invocation: failure of the try block, healing method, result
    wstep,          \* the step WebDriver executes
    suggestion,     \* what llm.suggest_ui_locator returns when asked
    wpc,            \* position of WebDriver._execute_step
    resolved_by,    \* the source the selector came from
    wselector,      \* the selector used: <<prefix, value>>
    llm_asked,      \* whether llm.suggest_ui_locator was called
    wresult,        \* how WebDriver._execute_step ended
    store0,         \* the locators table before the step
    \* --- MobileMCP._execute_step
    mob_step,       \* the step: action, step-provided locator, presence of x and y
    mob_pc,         \* position of MobileMCP._execute_step
    mob_works,      \* positions of the candidates whose driver calls succeed
    mob_tried,      \* the candidates the loop went through, in order
    mob_chosen,     \* chosen_locator (NoLocator models None)
    mob_result,     \* how _execute_step ended
    mob_store0,     \* the locators table before the step
    \* --- LLMAgent
    llm_provider,   \* whether self.active_provider is set
    llm_retries,    \* self.retries
    llm_request,    \* the method called
    llm_text,       \* its text argument, as a string of characters
    llm_keywords,   \* the configured router keyword lists, per category
    llm_pc,         \* position of the request
    llm_attempt,    \* _call_llm's loop variable
    llm_calls,      \* number of provider.chat calls
    llm_sleeps,     \* number of time.sleep(1) calls
    llm_response,   \* what _call_llm returned
    llm_out,        \* what the request returned, or the exception leaving it
    \* --- compute_step_key
    key_step,       \* the step handed to compute_step_key
    key_pc,         \* "compute" before the calls, "done" after
    key_repo,       \* what LocatorRepo.compute_step_key returned
    key_repository, \* what LocatorRepository.compute_step_key returned
    \* --- wait_for_page_stable
    wait_impl,      \* which copy of the function runs
    wait_page,      \* whether a page was passed
    wait_spinners,  \* repo['ui']['spinners']
    wait_overlays,  \* repo['ui']['overlays']
    wait_pc,        \* position of wait_for_page_stable
    wait_idx,       \* position of the loop in selectors (1-based)
    wait_network,   \* the wait_for_load_state calls made, with how each ended
    wait_calls,     \* the selectors handed to wait_for_selector, in call order
    wait_failed,    \* positions in selectors whose wait timed out or raised
    \* --- TestExecutor shared by run_version and run_all
    pool_size,      \* max_workers of the TestExecutor
    pool_queue,     \* work queue of the ThreadPoolExecutor
    pool_worker,    \* the work item each worker thread is running
    pool_shutdown,  \* "no", "waiting" (shutdown called) or "returned"
    run_pc,         \* position of each run_all call
    run_cases,      \* number of test cases of each run request
    run_futures,    \* state of the futures each run_all holds
    run_waited,     \* futures whose result() has returned, per run_all
    \* --- add_version from interleaving threads
    vt_rows,        \* test_set_versions: user_story and version_number of each row
    vt_pc,          \* position of each thread in add_version
    vt_story,       \* user_story argument of each thread's call
    vt_number,      \* version_number local of each thread's call
    vt_calls,       \* add_version calls made so far
    vt_overlap      \* some call read the latest version while another call for
                    \* the same story was between its read and its insert

drvVars == <<driver, steps, dpc, test_run, run_updates, run_steps,
             passed_steps, failed_steps, skipped_steps, invoked, exec_calls>>
mcpVars == <<max_retries, heal_backend, nsteps, midx, attempt, mpc, execs,
             unhealed, healed, evidence, sleeps, exhausted, invalid, last_heal,
             raised_exc>>
locVars == <<impl, locators, clock, last_add, prev_locators>>
concVars == <<owner, cpc, cargs, cnext, cres, cursor, ccalls>>
verVars == <<versions, prev_versions, vcalls>>
clsVars == <<tc_type, llm, combined_text, keywords_map, mcp_type, kpc>>
rtrVars == <<pooled, max_workers, batch, rapc, ridx, task, inst, mcp_field,
             constructed, runs, slack, email>>
uiVars == <<uicomp, ui_cfg, ui_step, upc, ui_attempt, ui_calls, ui_last, wstep,
            suggestion, wpc, resolved_by, wselector, llm_asked, wresult, store0>>
mobVars == <<mob_step, mob_pc, mob_works, mob_tried, mob_chosen, mob_result, mob_store0>>
llmVars == <<llm_provider, llm_retries, llm_request, llm_text, llm_keywords, llm_pc,
             llm_attempt, llm_calls, llm_sleeps, llm_response, llm_out>>
keyVars == <<key_step, key_pc, key_repo, key_repository>>
waitVars == <<wait_impl, wait_page, wait_spinners, wait_overlays, wait_pc, wait_idx,
              wait_network, wait_calls, wait_failed>>
poolVars == <<pool_size, pool_queue, pool_worker, pool_shutdown, run_pc, run_cases,
              run_futures, run_waited>>
vtVars == <<vt_rows, vt_pc, vt_story, vt_number, vt_calls, vt_overlap>>
vars == <<drvVars, mcpVars, locVars, concVars, verVars, clsVars, rtrVars, uiVars, mobVars, llmVars, keyVars, waitVars, poolVars, vtVars>>

\* ===================================================== drivers' run_test_case

Drivers == {"web", "api", "mobile"}

\* step.get("depends_on"): {} models None, {i} models the integer i
DepVals == {{}} \cup {{i} : i \in 0..(MaxSteps - 1)}

\* what _execute_step does when it is called: returns, raises ValueError
\* (missing data), or raises another exception
Outcomes == {"ok", "ValueError", "Exception"}

StepSeqs == UNION {[1..n -> [depends_on : DepVals]] : n \in 0..MaxSteps}

DriverIdle ==
    /\ driver = "web"
    /\ steps = <<>>
    /\ dpc = "idle"
    /\ test_run = "none"
    /\ run_updates = 0
    /\ run_steps = <<>>
    /\ passed_steps = 0
    /\ failed_steps = 0
    /\ skipped_steps = 0
    /\ invoked = {}
    /\ exec_calls = 0

\* state on entry of run_test_case(case), before the test_runs row is inserted
DriverInit ==
    /\ driver \in Drivers
    /\ steps \in StepSeqs
    /\ dpc = "start"
    /\ test_run = "none"
    /\ run_updates = 0
    /\ run_steps = <<>>
    /\ passed_steps = 0
    /\ failed_steps = 0
    /\ skipped_steps = 0
    /\ invoked = {}
    /\ exec_calls = 0

\* db.add_test_run(..., status="running", ...) and the counters' initialisation
StartRun ==
    /\ dpc = "start"
    /\ test_run' = "running"
    /\ passed_steps' = 0
    /\ failed_steps' = 0
    /\ skipped_steps' = 0
    /\ dpc' = "loop"
    /\ UNCHANGED <<driver, steps, run_updates, run_steps, invoked, exec_calls>>

\* db.get_run_steps(run_id): the rows recorded for this run so far
get_run_steps == run_steps

\* faulty variant of the dependency check: only a failed dependency counts
DependencyRaisesFailedOnly(dep) ==
    /\ dep # {}
    /\ \E r \in 1..Len(run_steps) :
          /\ run_steps[r].step_index \in dep
          /\ run_steps[r].status = "failed"

\* faulty variant of the dependency check: a dependency without a recorded
\* row raises as well
DependencyRaisesUnrecorded(dep) ==
    /\ dep # {}
    /\ \/ \E r \in 1..Len(run_steps) :
             /\ run_steps[r].step_index \in dep
             /\ run_steps[r].status \in {"failed", "skipped"}
       \/ ~\E r \in 1..Len(run_steps) : run_steps[r].step_index \in dep

\* the dependency check at the head of the try block: TRUE when it raises
\* ValueError("Step depends_on ... which did not pass")
DependencyRaises(dep) ==
    /\ dep # {}
    /\ \E r \in 1..Len(get_run_steps) :
          /\ get_run_steps[r].step_index \in dep
          /\ get_run_steps[r].status \in {"failed", "skipped"}

\* faulty variant of the ladder: another exception is recorded as 'error'
StepStatusErrorLabel(depRaises, outcome) ==
    IF depRaises \/ outcome = "ValueError" THEN "skipped"
    ELSE IF outcome = "Exception" THEN "error"
    ELSE "passed"

\* faulty variant of the ladder: a ValueError handled like any other exception
StepStatusValueErrorFails(depRaises, outcome) ==
    IF depRaises THEN "skipped"
    ELSE IF outcome \in {"ValueError", "Exception"} THEN "failed"
    ELSE "passed"

\* status recorded for the step: the try / except ValueError / except Exception
\* / else ladder
StepStatus(depRaises, outcome) ==
    IF depRaises \/ outcome = "ValueError" THEN "skipped"
    ELSE IF outcome = "Exception" THEN "failed"
    ELSE "passed"

\* message recorded for the step: str(ve) of the dependency check or of
\* _execute_step's validation, str(exc) of another exception, else None
StepMessage(depRaises, outcome) ==
    IF depRaises THEN "depends_on"
    ELSE IF outcome = "ValueError" THEN "validation"
    ELSE IF outcome = "Exception" THEN "error"
    ELSE "None"

\* one iteration of `for idx, step in enumerate(steps)`; idx is 0-based and is
\* the number of rows already recorded
RunStep(outcome) ==
    /\ dpc = "loop"
    /\ Len(run_steps) < Len(steps)
    /\ LET idx == Len(run_steps)
           dep == steps[idx + 1].depends_on
           depRaises == DependencyRaises(dep)
           status == StepStatus(depRaises, outcome)
       IN /\ invoked' = IF depRaises THEN invoked ELSE invoked \cup {idx}
          /\ exec_calls' = IF depRaises THEN exec_calls ELSE exec_calls + 1
          /\ passed_steps' = IF status = "passed" THEN passed_steps + 1 ELSE passed_steps
          /\ failed_steps' = IF status = "failed" THEN failed_steps + 1 ELSE failed_steps
          /\ skipped_steps' = IF status = "skipped" THEN skipped_steps + 1 ELSE skipped_steps
          /\ run_steps' = Append(run_steps, [step_index |-> idx, status |-> status,
                                              message |-> StepMessage(depRaises, outcome)])
    /\ UNCHANGED <<driver, steps, dpc, test_run, run_updates>>

\* faulty variant of the derivation: the status of the row is left as it was
\* inserted
OverallStatusLeftRunning(d, p, f, s) == "running"

\* faulty variant of the derivation: the all-failed test placed before the
\* all-passed test
OverallStatusFailedFirst(p, f, s) ==
    LET executed == p + f
    IN IF executed = 0 /\ s > 0 THEN "skipped"
       ELSE IF f = executed THEN "failed"
       ELSE IF f = 0 /\ s = 0 THEN "passed"
       ELSE "partial"

\* WebDriver.run_test_case, "Determine overall status"
WebOverallStatus(p, f, s) ==
    LET executed == p + f
    IN IF executed = 0 /\ s > 0 THEN "skipped"
       ELSE IF f = 0 /\ s = 0 THEN "passed"
       ELSE IF f = executed THEN "failed"
       ELSE "partial"

\* APIDriver.run_test_case
ApiOverallStatus(p, f, s) ==
    LET executed == p + f
    IN IF executed = 0 /\ s > 0 THEN "skipped"
       ELSE IF f = 0 /\ s = 0 THEN "passed"
       ELSE IF f = executed THEN "failed"
       ELSE "partial"

\* MobileDriver.run_test_case
MobileOverallStatus(p, f, s) ==
    LET executed == p + f
    IN IF executed = 0 /\ s > 0 THEN "skipped"
       ELSE IF f = 0 /\ s = 0 THEN "passed"
       ELSE IF f = executed THEN "failed"
       ELSE "partial"

OverallStatus(d, p, f, s) ==
    IF d = "web" THEN WebOverallStatus(p, f, s)
    ELSE IF d = "api" THEN ApiOverallStatus(p, f, s)
    ELSE MobileOverallStatus(p, f, s)

\* after the loop: derive the overall status and UPDATE test_runs
FinishRun ==
    /\ dpc = "loop"
    /\ Len(run_steps) = Len(steps)
    /\ test_run' = OverallStatus(driver, passed_steps, failed_steps, skipped_steps)
    /\ run_updates' = run_updates + 1
    /\ dpc' = "done"
    /\ UNCHANGED <<driver, steps, run_steps, passed_steps, failed_steps,
                   skipped_steps, invoked, exec_calls>>


\* ============================================================== MCPBase.run

McpIdle ==
    /\ max_retries = 0
    /\ heal_backend = FALSE
    /\ nsteps = 0
    /\ midx = 0
    /\ attempt = 0
    /\ mpc = "idle"
    /\ execs = <<>>
    /\ unhealed = <<>>
    /\ healed = <<>>
    /\ evidence = <<>>
    /\ sleeps = 0
    /\ exhausted = {}
    /\ invalid = {}
    /\ last_heal = "none"
    /\ raised_exc = "none"

\* state on entry of run(steps): __init__ has read mcp.max_retries; the loop
\* is about to start (an empty list ends at once)
McpInit ==
    /\ max_retries \in 0..MaxRetriesBound
    /\ heal_backend \in BOOLEAN
    /\ nsteps \in 0..McpSteps
    /\ midx = 0
    /\ attempt = 0
    /\ mpc = IF nsteps = 0 THEN "done" ELSE "exec"
    /\ execs = [i \in 0..(nsteps - 1) |-> 0]
    /\ unhealed = [i \in 0..(nsteps - 1) |-> 0]
    /\ healed = [i \in 0..(nsteps - 1) |-> 0]
    /\ evidence = <<>>
    /\ sleeps = 0
    /\ exhausted = {}
    /\ invalid \in SUBSET (0..(nsteps - 1))
    /\ last_heal = "none"
    /\ raised_exc = "none"

\* faulty variant: evidence is attached for the first failure of a step only
AttachEvidenceFirstAttempt(ev, idx, att) ==
    IF att = 1 THEN Append(ev, [step |-> idx + 1, attempt |-> att]) ELSE ev

\* self.reporter.attach_text(f"Step {idx + 1} failure on attempt {attempt}: ...")
AttachEvidence(ev, idx, att) == Append(ev, [step |-> idx + 1, attempt |-> att])

\* faulty variant: no pause between two attempts
RetrySleepSkipped(n) == n

\* time.sleep(self.retry_interval)
RetrySleep(n) == n + 1

\* what _self_heal can do: the base default (also used by the API and SQL
\* backends) returns False; the UI and mobile overrides may return True or
\* False, or raise
HealOutcomes(overridden) ==
    IF overridden THEN {"True", "False", "raise"} ELSE {"False"}

\* `try: self._execute_step(step); break` and, when it raises, the head of the
\* except block: attempt += 1, the warning and reporter.attach_text.  A step
\* without its required field raises ValueError in every attempt.
ExecuteStep(ok) ==
    /\ mpc = "exec"
    /\ execs[midx] < MaxExec
    /\ ok => midx \notin invalid
    /\ execs' = [execs EXCEPT ![midx] = @ + 1]
    /\ IF ok
       THEN /\ midx' = midx + 1
            /\ attempt' = 0
            /\ mpc' = IF midx + 1 = nsteps THEN "done" ELSE "exec"
            /\ UNCHANGED evidence
       ELSE /\ attempt' = attempt + 1
            /\ evidence' = AttachEvidence(evidence, midx, attempt + 1)
            /\ mpc' = "heal"
            /\ UNCHANGED midx
    /\ last_heal' = "none"
    /\ UNCHANGED <<max_retries, heal_backend, nsteps, unhealed, healed, sleeps,
                   exhausted, invalid, raised_exc>>

\* faulty variant of the exhaustion test: one attempt too many
RetriesExhaustedStrict(a, m) == a > m

\* `if attempt >= self.max_retries`
RetriesExhausted(a, m) == a >= m

\* faulty variant of the exhaustion branch: give the step up and go on with
\* the next one, as the drivers' run_test_case does
ContinueAfterExhaustion ==
    /\ exhausted' = exhausted \cup {midx}
    /\ midx' = midx + 1
    /\ attempt' = 0
    /\ mpc' = IF midx + 1 = nsteps THEN "done" ELSE "exec"
    /\ UNCHANGED sleeps

\* the exhaustion branch: log the error and `raise`, which leaves the for loop
RaiseExhausted ==
    /\ exhausted' = exhausted \cup {midx}
    /\ mpc' = "raised"
    /\ UNCHANGED <<midx, attempt, sleeps>>

\* faulty variant: the exception raised last, the heal's own, leaves run
ReRaisedLatest(h) == IF h = "raise" THEN "self_heal" ELSE "execute_step"

\* the bare `raise` of the exhaustion branch: `except Exception as heal_exc`
\* has ended, so the exception being handled is again exc of _execute_step
ReRaised(h) == "execute_step"

\* the rest of the except block: _self_heal, `continue` when it healed,
\* otherwise raise when the retries are exhausted, else sleep and loop
SelfHeal(h) ==
    /\ mpc = "heal"
    /\ h \in HealOutcomes(heal_backend)
    /\ IF h = "True"
       THEN /\ healed' = [healed EXCEPT ![midx] = @ + 1]
            /\ mpc' = "exec"
            /\ UNCHANGED <<unhealed, midx, attempt, sleeps, exhausted, raised_exc>>
       ELSE /\ unhealed' = [unhealed EXCEPT ![midx] = @ + 1]
            /\ UNCHANGED healed
            /\ IF RetriesExhausted(attempt, max_retries)
               THEN RaiseExhausted /\ raised_exc' = ReRaised(h)
               ELSE /\ sleeps' = RetrySleep(sleeps)
                    /\ mpc' = "exec"
                    /\ UNCHANGED <<midx, attempt, exhausted, raised_exc>>
    /\ last_heal' = h
    /\ UNCHANGED <<max_retries, heal_backend, nsteps, execs, evidence, invalid>>


\* ======================================================= locator repository

Impls == {"LocatorRepo", "LocatorRepository"}
Contexts == {"ui", "mobile"}
StepKeys == {"click:#login", "tap:Login"}

\* locator dictionaries handed to add_locator; "" stands for a missing or
\* empty field (locator.get(...) is None or '', both falsy)
LocatorArgs ==
    { [type |-> "css", value |-> "#a"],
      [type |-> "css", value |-> "#b"],
      [type |-> "xpath", value |-> "#a"],
      [type |-> "", value |-> "#a"],
      [type |-> "css", value |-> ""] }

NoCall == [context |-> "", step_key |-> "", locator |-> [type |-> "", value |-> ""],
           result |-> "none"]

LocIdle ==
    /\ impl = "LocatorRepo"
    /\ locators = <<>>
    /\ clock = 0
    /\ last_add = NoCall
    /\ prev_locators = <<>>

\* a fresh repository: _ensure_schema has created the empty table and the
\* partial unique index
LocInit ==
    /\ impl \in Impls
    /\ locators = <<>>
    /\ clock = 1
    /\ last_add = NoCall
    /\ prev_locators = <<>>

\* rows (by id) of one (context, step_key)
KeyRows(tbl, ctx, key) ==
    {r \in 1..Len(tbl) : tbl[r].context = ctx /\ tbl[r].step_key = key}

ActiveRows(tbl, ctx, key) ==
    {r \in KeyRows(tbl, ctx, key) : tbl[r].is_active = 1}

SetMax(S) == CHOOSE x \in S : \A y \in S : y <= x

\* faulty variant: only the type is validated
ValidLocatorTypeOnly(loc) == loc.type # ""

\* `if not locator_type or not locator_value: raise ValueError`
ValidLocator(loc) == loc.type # "" /\ loc.value # ""

\* faulty variant: WHERE clause without the step_key
DeactivateWholeContext(tbl, ctx, key, now) ==
    [r \in 1..Len(tbl) |->
        IF tbl[r].context = ctx /\ tbl[r].is_active = 1
        THEN [tbl[r] EXCEPT !.is_active = 0, !.updated_at = now]
        ELSE tbl[r]]

\* faulty variant: WHERE clause without the context
DeactivateAnyContext(tbl, ctx, key, now) ==
    [r \in 1..Len(tbl) |->
        IF tbl[r].step_key = key /\ tbl[r].is_active = 1
        THEN [tbl[r] EXCEPT !.is_active = 0, !.updated_at = now]
        ELSE tbl[r]]

\* UPDATE locators SET is_active = 0, updated_at = ?
\*   WHERE context = ? AND step_key = ? AND is_active = 1
Deactivate(tbl, ctx, key, now) ==
    [r \in 1..Len(tbl) |->
        IF tbl[r].context = ctx /\ tbl[r].step_key = key /\ tbl[r].is_active = 1
        THEN [tbl[r] EXCEPT !.is_active = 0, !.updated_at = now]
        ELSE tbl[r]]

\* faulty variant: MAX(version) over the whole table
NextVersionGlobal(tbl, ctx, key) ==
    IF Len(tbl) = 0 THEN 1
    ELSE SetMax({tbl[r].version : r \in 1..Len(tbl)}) + 1

\* SELECT MAX(version) ... WHERE context = ? AND step_key = ?; next_version is
\* row[0] + 1, or 1 when MAX is NULL
NextVersion(tbl, ctx, key) ==
    IF KeyRows(tbl, ctx, key) = {} THEN 1
    ELSE SetMax({tbl[r].version : r \in KeyRows(tbl, ctx, key)}) + 1

\* idx_locators_active: UNIQUE (context, step_key, is_active) WHERE is_active = 1;
\* TRUE when inserting `row` would break it
BreaksUniqueIndex(tbl, row) ==
    row.is_active = 1 /\ ActiveRows(tbl, row.context, row.step_key) # {}

NewRow(ctx, key, loc, version, now) ==
    [context |-> ctx, step_key |-> key, locator_type |-> loc.type,
     locator_value |-> loc.value, version |-> version, is_active |-> 1,
     created_at |-> now, updated_at |-> now]

\* the statements of add_locator after validation; tUpd and tIns are the
\* timestamps of the UPDATE and of the INSERT.  Result: the table as the
\* connection sees it afterwards, and how the call ended.
AddLocatorBody(tbl, ctx, key, loc, tUpd, tIns) ==
    IF ~ValidLocator(loc)
    THEN [table |-> tbl, result |-> "ValueError"]
    ELSE LET deact == Deactivate(tbl, ctx, key, tUpd)
             row == NewRow(ctx, key, loc, NextVersion(deact, ctx, key), tIns)
         IN IF BreaksUniqueIndex(deact, row)
            THEN [table |-> deact, result |-> "IntegrityError"]
            ELSE [table |-> Append(deact, row), result |-> "ok"]

\* LocatorRepo.add_locator: datetime.now() is read once for the UPDATE and
\* again for the INSERT
LocatorRepo_add_locator(tbl, ctx, key, loc, now) ==
    AddLocatorBody(tbl, ctx, key, loc, now, now + 1)

\* LocatorRepository.add_locator: one utcnow() serves both statements
LocatorRepository_add_locator(tbl, ctx, key, loc, now) ==
    AddLocatorBody(tbl, ctx, key, loc, now, now)

\* faulty variant: no is_active filter, ORDER BY version ASC
get_locator_first_version(tbl, ctx, key) ==
    LET rows == KeyRows(tbl, ctx, key)
    IN IF rows = {} THEN {}
       ELSE LET low == CHOOSE r \in rows : \A q \in rows : tbl[r].version <= tbl[q].version
            IN {[type |-> tbl[low].locator_type, value |-> tbl[low].locator_value]}

\* SELECT locator_type, locator_value ... WHERE is_active = 1
\*   ORDER BY version DESC LIMIT 1; {} models None
get_locator(tbl, ctx, key) ==
    LET act == ActiveRows(tbl, ctx, key)
    IN IF act = {} THEN {}
       ELSE LET top == CHOOSE r \in act : \A q \in act : tbl[q].version <= tbl[r].version
            IN {[type |-> tbl[top].locator_type, value |-> tbl[top].locator_value]}

\* one add_locator call, whole: validation, UPDATE, SELECT MAX, INSERT, commit
AddLocator(ctx, key, loc) ==
    /\ clock < 2 * MaxAdds
    /\ LET res == IF impl = "LocatorRepo"
                  THEN LocatorRepo_add_locator(locators, ctx, key, loc, clock)
                  ELSE LocatorRepository_add_locator(locators, ctx, key, loc, clock)
       IN /\ locators' = res.table
          /\ last_add' = [context |-> ctx, step_key |-> key, locator |-> loc,
                          result |-> res.result]
    /\ prev_locators' = locators
    /\ clock' = clock + 2
    /\ UNCHANGED impl


\* ==================================== add_locator called from several threads

\* worker threads of the router's pool that reach the one LocatorRepo of the
\* cached MobileMCP
Threads == {"t1", "t2"}

\* arguments of the add_locator calls: three keys and one invalid locator
ConcArgs ==
    { [context |-> "mobile", step_key |-> "tap:Login",
       locator |-> [type |-> "css", value |-> "#a"]],
      [context |-> "mobile", step_key |-> "click:#login",
       locator |-> [type |-> "css", value |-> "#b"]],
      [context |-> "ui", step_key |-> "tap:Login",
       locator |-> [type |-> "xpath", value |-> "#a"]],
      [context |-> "mobile", step_key |-> "tap:Login",
       locator |-> [type |-> "css", value |-> ""]] }

NoArgs == [context |-> "", step_key |-> "", locator |-> [type |-> "", value |-> ""]]

ConcIdle ==
    /\ owner = "t1"
    /\ cpc = [t \in Threads |-> "idle"]
    /\ cargs = [t \in Threads |-> NoArgs]
    /\ cnext = [t \in Threads |-> 0]
    /\ cres = [t \in Threads |-> "none"]
    /\ cursor = {}
    /\ ccalls = 0

\* LocatorRepo.__init__ has run in thread `owner`: connection and cursor are
\* created there and the table is empty
ConcInit ==
    /\ impl = "LocatorRepo"
    /\ locators = <<>>
    /\ clock = 1
    /\ last_add = NoCall
    /\ prev_locators = <<>>
    /\ owner \in Threads
    /\ cpc = [t \in Threads |-> "idle"]
    /\ cargs = [t \in Threads |-> NoArgs]
    /\ cnext = [t \in Threads |-> 0]
    /\ cres = [t \in Threads |-> "none"]
    /\ cursor = {}
    /\ ccalls = 0

\* faulty variant: a connection opened with check_same_thread=False
CheckThreadDisabled(t) == TRUE

\* sqlite3.connect(db_file) keeps the default check_same_thread=True: every
\* call on the connection or its cursor from another thread than the creating
\* one raises ProgrammingError before it touches the database
CheckThread(t) == t = owner

\* the value of SELECT MAX(version) ... WHERE context = ? AND step_key = ?;
\* 0 models NULL
SelectMaxVersion(tbl, ctx, key) ==
    IF KeyRows(tbl, ctx, key) = {} THEN 0
    ELSE SetMax({tbl[r].version : r \in KeyRows(tbl, ctx, key)})

\* next_version = (row[0] + 1) if row and row[0] is not None else 1; `row` is
\* what fetchone returned: {} models None, {0} a row holding NULL
NextVersionOfRow(row) ==
    IF row = {} \/ row = {0} THEN 1
    ELSE (CHOOSE v \in row : TRUE) + 1

\* the call raises in thread t and leaves add_locator
ConcRaise(t, exc) ==
    /\ cpc' = [cpc EXCEPT ![t] = "idle"]
    /\ cres' = [cres EXCEPT ![t] = exc]

\* thread t enters add_locator(context, step_key, locator): the validation
ConcCall(t, a) ==
    /\ cpc[t] = "idle"
    /\ ccalls < MaxConcCalls
    /\ ccalls' = ccalls + 1
    /\ cargs' = [cargs EXCEPT ![t] = a]
    /\ IF ValidLocator(a.locator)
       THEN /\ cpc' = [cpc EXCEPT ![t] = "update"]
            /\ cres' = [cres EXCEPT ![t] = "running"]
       ELSE ConcRaise(t, "ValueError")
    /\ UNCHANGED <<locVars, owner, cnext, cursor>>

\* self.cursor.execute("UPDATE locators SET is_active = 0 ...")
ConcUpdate(t) ==
    /\ cpc[t] = "update"
    /\ IF CheckThread(t)
       THEN /\ locators' = Deactivate(locators, cargs[t].context, cargs[t].step_key, clock)
            /\ clock' = clock + 1
            /\ cursor' = {}
            /\ cpc' = [cpc EXCEPT ![t] = "select"]
            /\ UNCHANGED cres
       ELSE /\ ConcRaise(t, "ProgrammingError")
            /\ UNCHANGED <<locators, clock, cursor>>
    /\ UNCHANGED <<impl, last_add, prev_locators, owner, cargs, cnext, ccalls>>

\* self.cursor.execute("SELECT MAX(version) ...")
ConcSelect(t) ==
    /\ cpc[t] = "select"
    /\ IF CheckThread(t)
       THEN /\ cursor' = {SelectMaxVersion(locators, cargs[t].context, cargs[t].step_key)}
            /\ cpc' = [cpc EXCEPT ![t] = "fetch"]
            /\ UNCHANGED cres
       ELSE /\ ConcRaise(t, "ProgrammingError")
            /\ UNCHANGED cursor
    /\ UNCHANGED <<locVars, owner, cargs, cnext, ccalls>>

\* row = self.cursor.fetchone() and the computation of next_version
ConcFetch(t) ==
    /\ cpc[t] = "fetch"
    /\ IF CheckThread(t)
       THEN /\ cnext' = [cnext EXCEPT ![t] = NextVersionOfRow(cursor)]
            /\ cursor' = {}
            /\ cpc' = [cpc EXCEPT ![t] = "insert"]
            /\ UNCHANGED cres
       ELSE /\ ConcRaise(t, "ProgrammingError")
            /\ UNCHANGED <<cnext, cursor>>
    /\ UNCHANGED <<locVars, owner, cargs, ccalls>>

\* self.cursor.execute("INSERT INTO locators ...") under idx_locators_active
ConcInsert(t) ==
    /\ cpc[t] = "insert"
    /\ IF CheckThread(t)
       THEN LET row == NewRow(cargs[t].context, cargs[t].step_key, cargs[t].locator,
                              cnext[t], clock)
            IN IF BreaksUniqueIndex(locators, row)
               THEN /\ ConcRaise(t, "IntegrityError")
                    /\ UNCHANGED <<locators, clock, cursor>>
               ELSE /\ locators' = Append(locators, row)
                    /\ clock' = clock + 1
                    /\ cursor' = {}
                    /\ cpc' = [cpc EXCEPT ![t] = "commit"]
                    /\ UNCHANGED cres
       ELSE /\ ConcRaise(t, "ProgrammingError")
            /\ UNCHANGED <<locators, clock, cursor>>
    /\ UNCHANGED <<impl, last_add, prev_locators, owner, cargs, cnext, ccalls>>

\* self.conn.commit() and the return
ConcCommit(t) ==
    /\ cpc[t] = "commit"
    /\ IF CheckThread(t)
       THEN ConcRaise(t, "ok")
       ELSE ConcRaise(t, "ProgrammingError")
    /\ UNCHANGED <<locVars, owner, cargs, cnext, cursor, ccalls>>


\* =========================================================== VersionManager

Stories == {"login", "checkout"}

\* c.get("identifier"): "None" stands for a case without identifier
Identifiers == {"A", "B", "C", "D", "None"}

Case(id, body) == [identifier |-> id, body |-> body]

\* the case lists handed to add_version
CaseLists ==
    { <<>>,
      <<Case("A", "x")>>,
      <<Case("A", "y")>>,
      <<Case("A", "x"), Case("B", "x"), Case("C", "x")>>,
      <<Case("B", "x"), Case("C", "x"), Case("D", "x")>>,
      <<Case("A", "x"), Case("A", "y")>>,
      <<Case("None", "x"), Case("B", "y")>> }

Range(f) == {f[i] : i \in DOMAIN f}

\* json.dumps of one value: None becomes null, a string is quoted
JsonValue(v) == IF v = "None" THEN <<"null">> ELSE <<"\"", v, "\"">>

\* json.dumps(test_cases, ensure_ascii=False): the text, one object per case
JsonDumps(cases) ==
    [i \in 1..Len(cases) |->
        <<"{", "identifier", ":", JsonValue(cases[i].identifier), ",",
          "body", ":", JsonValue(cases[i].body), "}">>]

\* json.loads of one value
JsonParseValue(tok) == IF tok = <<"null">> THEN "None" ELSE tok[2]

\* json.loads(cases_json)
JsonLoads(text) ==
    [i \in 1..Len(text) |->
        [identifier |-> JsonParseValue(text[i][4]), body |-> JsonParseValue(text[i][8])]]

VerIdle ==
    /\ versions = <<>>
    /\ prev_versions = <<>>
    /\ vcalls = <<>>

\* a VersionManager on a fresh database: _ensure_schema has created the table
VerInit ==
    /\ versions = <<>>
    /\ prev_versions = <<>>
    /\ vcalls = <<>>

StoryRows(tbl, story) == {r \in 1..Len(tbl) : tbl[r].user_story = story}

\* SELECT ... WHERE user_story=? ORDER BY version_number DESC LIMIT 1; {}
\* models None, otherwise (id, version_number, cases, similarity)
get_latest_version_info(tbl, story) ==
    IF StoryRows(tbl, story) = {} THEN {}
    ELSE LET r == CHOOSE r \in StoryRows(tbl, story) :
                     \A q \in StoryRows(tbl, story) :
                         \/ tbl[q].version_number < tbl[r].version_number
                         \/ (tbl[q].version_number = tbl[r].version_number /\ q <= r)
         IN {[id |-> r, version_number |-> tbl[r].version_number,
              cases |-> JsonLoads(tbl[r].test_cases_json),
              similarity |-> tbl[r].similarity]}

\* SequenceMatcher(None, old_text, new_text).ratio() in percent: 1.0 exactly
\* when the two texts are equal, some smaller value otherwise
compute_similarity(old_cases, new_cases) ==
    IF JsonDumps(old_cases) = JsonDumps(new_cases) THEN {100} ELSE {0, 90}

\* the keys of {c.get("identifier"): c for c in cases}, in insertion order
RECURSIVE DictKeys(_)
DictKeys(cases) ==
    IF cases = <<>> THEN <<>>
    ELSE LET front == DictKeys(SubSeq(cases, 1, Len(cases) - 1))
             k == cases[Len(cases)].identifier
         IN IF k \in Range(front) THEN front ELSE Append(front, k)

\* the value of that dict at key k: the last case carrying the identifier
DictValue(cases, k) ==
    cases[SetMax({i \in 1..Len(cases) : cases[i].identifier = k})]

ValuesOf(cases, keys) == [i \in 1..Len(keys) |-> DictValue(cases, keys[i])]

\* faulty variant: the roles of the old and the new map exchanged
ComputeDiffSwapped(old_cases, new_cases) ==
    LET old_keys == DictKeys(old_cases)
        new_keys == DictKeys(new_cases)
    IN [added |-> ValuesOf(old_cases, SelectSeq(old_keys, LAMBDA k : k \notin Range(new_keys))),
        removed |-> ValuesOf(new_cases, SelectSeq(new_keys, LAMBDA k : k \notin Range(old_keys))),
        unchanged |-> ValuesOf(new_cases, SelectSeq(new_keys, LAMBDA k : k \in Range(old_keys)))]

\* "Determine case differences by matching identifiers": the two loops over
\* new_map and old_map
ComputeDiff(old_cases, new_cases) ==
    LET old_keys == DictKeys(old_cases)
        new_keys == DictKeys(new_cases)
    IN [added |-> ValuesOf(new_cases, SelectSeq(new_keys, LAMBDA k : k \notin Range(old_keys))),
        removed |-> ValuesOf(old_cases, SelectSeq(old_keys, LAMBDA k : k \notin Range(new_keys))),
        unchanged |-> ValuesOf(new_cases, SelectSeq(new_keys, LAMBDA k : k \in Range(old_keys)))]

\* faulty variant: the number of the latest version is reused
NewVersionNumberReused(latest) ==
    IF latest = {} THEN 1 ELSE (CHOOSE l \in latest : TRUE).version_number

\* version_number = (latest[1] + 1) if latest else 1
NewVersionNumber(latest) ==
    IF latest = {} THEN 1 ELSE (CHOOSE l \in latest : TRUE).version_number + 1

\* faulty variant: a version identical to the latest one replaces its row
PersistVersionDeduplicated(tbl, row) ==
    IF row.similarity = 100 /\ StoryRows(tbl, row.user_story) # {}
    THEN [tbl EXCEPT ![SetMax(StoryRows(tbl, row.user_story))] = row]
    ELSE Append(tbl, row)

\* INSERT INTO test_set_versions (...) VALUES (?,?,?,?,?,?) and commit
PersistVersion(tbl, row) == Append(tbl, row)

\* add_version(user_story, test_cases, author) with the similarity `sim` that
\* _compute_similarity returned: the table afterwards and the returned dict
add_version(tbl, story, cases, sim) ==
    LET latest == get_latest_version_info(tbl, story)
        version_number == NewVersionNumber(latest)
        similarity == IF latest = {} THEN 0 ELSE sim
        diff == IF latest = {}
                THEN [added |-> cases, removed |-> <<>>, unchanged |-> <<>>]
                ELSE ComputeDiff((CHOOSE l \in latest : TRUE).cases, cases)
        row == [user_story |-> story, version_number |-> version_number,
                similarity |-> similarity, test_cases_json |-> JsonDumps(cases)]
        table == PersistVersion(tbl, row)
    IN [table |-> table,
        ret |-> [version_id |-> Len(table), version_number |-> version_number,
                 similarity |-> similarity, diff |-> diff]]

\* get_test_cases(version_id): {} models the ValueError for an unknown id
get_test_cases(tbl, version_id) ==
    IF version_id \in 1..Len(tbl) THEN {JsonLoads(tbl[version_id].test_cases_json)}
    ELSE {}

\* the values _compute_similarity can return for this call
SimilarityOf(tbl, story, cases) ==
    LET latest == get_latest_version_info(tbl, story)
    IN IF latest = {} THEN {0}
       ELSE compute_similarity((CHOOSE l \in latest : TRUE).cases, cases)

\* one add_version call, whole
AddVersion(story, cases) ==
    /\ Len(vcalls) < MaxVersionCalls
    /\ \E sim \in SimilarityOf(versions, story, cases) :
          LET res == add_version(versions, story, cases, sim)
          IN /\ versions' = res.table
             /\ vcalls' = Append(vcalls, [user_story |-> story, test_cases |-> cases,
                                          ret |-> res.ret])
    /\ prev_versions' = versions

\* ====================================================== MCPRouter._classify

\* strings are sequences of characters, so that lower() and `in` are computed
Categories == << <<"u", "i">>, <<"a", "p", "i">>, <<"m", "o", "b", "i", "l", "e">>,
                <<"s", "q", "l">> >>

\* the types _get_mcp knows
BackendTypes == Range(Categories)

\* tc.type: None, 'ui', 'UI', 'sql', 'Web'
ExplicitTypes ==
    { <<>>, <<"u", "i">>, <<"U", "I">>, <<"s", "q", "l">>, <<"W", "e", "b">> }

\* self.llm: None, a translator whose classify raises, or one that answers
\* with a category string, known to _get_mcp or not
Translators ==
    { [present |-> FALSE, raises |-> FALSE, answer |-> <<>>],
      [present |-> TRUE, raises |-> TRUE, answer |-> <<>>] }
    \cup { [present |-> TRUE, raises |-> FALSE, answer |-> a] :
              a \in BackendTypes \cup { <<"w", "e", "b">> } }

\* combined_text: 'Tap go', 'GET', 'sel', 'x' and '' (no steps)
CombinedTexts ==
    { <<"T", "a", "p", " ", "g", "o">>, <<"G", "E", "T">>, <<"s", "e", "l">>,
      <<"x">>, <<>> }

\* the router.*_keywords lists of the configuration, in the order of
\* Categories: the defaults (all empty), and ui ['Go'], api ['get'],
\* mobile ['tap'], sql ['sel', 'x']
KeywordConfigs ==
    { << {}, {}, {}, {} >>,
      << {<<"G", "o">>}, {<<"g", "e", "t">>}, {<<"t", "a", "p">>},
         {<<"s", "e", "l">>, <<"x">>} >> }

NotClassified == <<"?">>

ClsIdle ==
    /\ tc_type = <<>>
    /\ llm = [present |-> FALSE, raises |-> FALSE, answer |-> <<>>]
    /\ combined_text = <<>>
    /\ keywords_map = << {}, {}, {}, {} >>
    /\ mcp_type = NotClassified
    /\ kpc = "idle"

\* entry of run_test_case(tc)
ClsInit ==
    /\ tc_type \in ExplicitTypes
    /\ llm \in Translators
    /\ combined_text \in CombinedTexts
    /\ keywords_map \in KeywordConfigs
    /\ mcp_type = NotClassified
    /\ kpc = "classify"

LowerChar(c) ==
    CASE c = "U" -> "u" [] c = "I" -> "i" [] c = "W" -> "w" [] c = "G" -> "g"
      [] c = "E" -> "e" [] c = "T" -> "t" [] c = "P" -> "p" [] c = "O" -> "o"
      [] c = "S" -> "s" [] OTHER -> c

\* str.lower()
Lower(str) == [i \in 1..Len(str) |-> LowerChar(str[i])]

\* `kw in text` for strings: kw is a substring of text
Contains(text, kw) ==
    \E i \in 1..(Len(text) + 1) :
        /\ i + Len(kw) - 1 <= Len(text)
        /\ SubSeq(text, i, i + Len(kw) - 1) = kw

\* the loop over keywords_map.items(): the first category, in dict order, one
\* of whose keywords occurs in the lower-cased text; 'api' when none does
HeuristicCategory(text, kwmap) ==
    LET hits == {c \in 1..Len(Categories) :
                    \E kw \in kwmap[c] : Contains(Lower(text), Lower(kw))}
    IN IF hits = {} THEN Categories[2]
       ELSE Categories[CHOOSE c \in hits : \A d \in hits : c <= d]

\* MCPRouter._classify
classify(type, translator, text, kwmap) ==
    IF type # <<>> THEN Lower(type)
    ELSE IF translator.present /\ ~translator.raises THEN translator.answer
    ELSE HeuristicCategory(text, kwmap)

\* mcp_type = self._classify(tc)
ClassifyCase ==
    /\ kpc = "classify"
    /\ mcp_type' = classify(tc_type, llm, combined_text, keywords_map)
    /\ kpc' = "get_mcp"
    /\ UNCHANGED <<tc_type, llm, combined_text, keywords_map>>

\* mcp = self._get_mcp(mcp_type): the chain of `if mcp_type == ...` and the
\* final raise ValueError("Unknown MCP type")
GetMcpType ==
    /\ kpc = "get_mcp"
    /\ kpc' = IF mcp_type \in BackendTypes THEN "run" ELSE "ValueError"
    /\ UNCHANGED <<tc_type, llm, combined_text, keywords_map, mcp_type>>

\* ======================================================= MCPRouter.run_all

\* what _classify gave the cases of the batch: two types _get_mcp knows and
\* one it does not
RoutedTypes == {"ui", "mobile", "web"}

KnownTypes == {"ui", "api", "mobile", "sql"}

RtrIdle ==
    /\ pooled = FALSE
    /\ max_workers = 0
    /\ batch = <<>>
    /\ rapc = "idle"
    /\ ridx = 1
    /\ task = <<>>
    /\ inst = <<>>
    /\ mcp_field = [t \in KnownTypes |-> 0]
    /\ constructed = [t \in KnownTypes |-> 0]
    /\ runs = <<>>
    /\ slack = <<>>
    /\ email = <<>>

\* a fresh MCPRouter (all four backends None) on entry of run_all(test_cases),
\* with or without a TestExecutor
RtrInit ==
    /\ pooled \in BOOLEAN
    /\ max_workers \in (IF pooled THEN 1..MaxWorkers ELSE {0})
    /\ batch \in UNION {[1..n -> RoutedTypes] : n \in 0..MaxBatch}
    /\ rapc = IF pooled THEN "submit" ELSE "seq"
    /\ ridx = 1
    /\ task = [i \in 1..Len(batch) |-> "new"]
    /\ inst = [i \in 1..Len(batch) |-> 0]
    /\ mcp_field = [t \in KnownTypes |-> 0]
    /\ constructed = [t \in KnownTypes |-> 0]
    /\ runs = [i \in 1..Len(batch) |-> 0]
    /\ slack = [i \in 1..Len(batch) |-> 0]
    /\ email = [i \in 1..Len(batch) |-> 0]

Finished(i) == task[i] \in {"ok", "raised"}

\* cases whose run_test_case is being executed by a worker thread
Active == {i \in 1..Len(batch) : task[i] \notin {"new", "queued", "ok", "raised"}}

\* futures.append(self.executor.submit(self.run_test_case, tc)); after the
\* last case the loop over the futures starts
Submit ==
    /\ rapc = "submit"
    /\ IF ridx <= Len(batch)
       THEN /\ task' = [task EXCEPT ![ridx] = "queued"]
            /\ ridx' = ridx + 1
            /\ UNCHANGED rapc
       ELSE /\ rapc' = "collect"
            /\ ridx' = 1
            /\ UNCHANGED task
    /\ UNCHANGED <<pooled, max_workers, batch, inst, mcp_field, constructed,
                   runs, slack, email>>

\* a free worker thread of the pool takes the oldest queued case and calls
\* run_test_case(tc)
StartTask(i) ==
    /\ i \in 1..Len(batch)
    /\ task[i] = "queued"
    /\ \A j \in 1..(i - 1) : task[j] # "queued"
    /\ Cardinality(Active) < max_workers
    /\ task' = [task EXCEPT ![i] = "get_mcp"]
    /\ runs' = [runs EXCEPT ![i] = @ + 1]
    /\ UNCHANGED <<pooled, max_workers, batch, rapc, ridx, inst, mcp_field,
                   constructed, slack, email>>

\* faulty variant of the handler: no try / except around the case
OnCaseFailureUncaught(i) ==
    /\ rapc' = "raised"
    /\ UNCHANGED <<slack, email, ridx>>

\* except Exception as exc: logger.error, send_slack_alert, send_email_alert
\* (both swallow their own delivery errors), then the next case
OnCaseFailure(i) ==
    /\ slack' = [slack EXCEPT ![i] = @ + 1]
    /\ email' = [email EXCEPT ![i] = @ + 1]
    /\ ridx' = ridx + 1
    /\ UNCHANGED rapc

\* `for f in futures: try: f.result() except Exception ...`: blocks until the
\* case has finished
Collect ==
    /\ rapc = "collect"
    /\ ridx <= Len(batch)
    /\ Finished(ridx)
    /\ IF task[ridx] = "raised"
       THEN OnCaseFailure(ridx)
       ELSE /\ ridx' = ridx + 1
            /\ UNCHANGED <<rapc, slack, email>>
    /\ UNCHANGED <<pooled, max_workers, batch, task, inst, mcp_field,
                   constructed, runs>>

\* sequential mode: `self.run_test_case(tc)` is called in run_all's thread
SeqStart ==
    /\ rapc = "seq"
    /\ ridx <= Len(batch)
    /\ task[ridx] = "new"
    /\ task' = [task EXCEPT ![ridx] = "get_mcp"]
    /\ runs' = [runs EXCEPT ![ridx] = @ + 1]
    /\ UNCHANGED <<pooled, max_workers, batch, rapc, ridx, inst, mcp_field,
                   constructed, slack, email>>

\* sequential mode: the call has returned or raised
SeqHandle ==
    /\ rapc = "seq"
    /\ ridx <= Len(batch)
    /\ Finished(ridx)
    /\ IF task[ridx] = "raised"
       THEN OnCaseFailure(ridx)
       ELSE /\ ridx' = ridx + 1
            /\ UNCHANGED <<rapc, slack, email>>
    /\ UNCHANGED <<pooled, max_workers, batch, task, inst, mcp_field,
                   constructed, runs>>

\* the loop is over: run_all returns
ReturnRunAll ==
    /\ rapc \in {"collect", "seq"}
    /\ ridx > Len(batch)
    /\ rapc' = "returned"
    /\ UNCHANGED <<pooled, max_workers, batch, ridx, task, inst, mcp_field,
                   constructed, runs, slack, email>>

\* _get_mcp: the comparison of mcp_type and `if self._<type>_mcp is None`;
\* an unknown type raises ValueError out of run_test_case
GetMcpCheck(i) ==
    /\ i \in 1..Len(batch)
    /\ task[i] = "get_mcp"
    /\ task' = [task EXCEPT ![i] =
                   IF batch[i] \notin KnownTypes THEN "raised"
                   ELSE IF mcp_field[batch[i]] = 0 THEN "construct"
                   ELSE "return"]
    /\ UNCHANGED <<pooled, max_workers, batch, rapc, ridx, inst, mcp_field,
                   constructed, runs, slack, email>>

\* self._<type>_mcp = <Backend>(self.config, self.reporter)
GetMcpConstruct(i) ==
    /\ i \in 1..Len(batch)
    /\ task[i] = "construct"
    /\ constructed' = [constructed EXCEPT ![batch[i]] = @ + 1]
    /\ mcp_field' = [mcp_field EXCEPT ![batch[i]] = constructed[batch[i]] + 1]
    /\ task' = [task EXCEPT ![i] = "return"]
    /\ UNCHANGED <<pooled, max_workers, batch, rapc, ridx, inst, runs, slack, email>>

\* return self._<type>_mcp, and run_test_case enters mcp.run(tc.steps)
GetMcpReturn(i) ==
    /\ i \in 1..Len(batch)
    /\ task[i] = "return"
    /\ inst' = [inst EXCEPT ![i] = mcp_field[batch[i]]]
    /\ task' = [task EXCEPT ![i] = "in_run"]
    /\ UNCHANGED <<pooled, max_workers, batch, rapc, ridx, mcp_field,
                   constructed, runs, slack, email>>

\* mcp.run(tc.steps) returns, or re-raises a step's exception
McpRun(i, ok) ==
    /\ i \in 1..Len(batch)
    /\ task[i] = "in_run"
    /\ task' = [task EXCEPT ![i] = IF ok THEN "ok" ELSE "raised"]
    /\ UNCHANGED <<pooled, max_workers, batch, rapc, ridx, inst, mcp_field,
                   constructed, runs, slack, email>>


\* ============================================ UI steps: UIMCP and WebDriver

\* step['action'] values of UIMCP; "drag" stands for any unknown action
UiActions == {"navigate", "click", "fill", "type", "select", "hover",
              "screenshot", "assert_text", "assert_element", "wait", "drag"}
HealableActions == {"click", "fill", "type"}
AssertActions == {"assert_text", "assert_element"}

\* how step['target'] starts: "#", ".", "//" or anything else
TargetKinds == {"id", "class", "xpath", "generic"}

\* the list _generate_alternative_selectors builds for a target x
generate_alternative_selectors(kind) ==
    CASE kind = "id" -> <<"[id='x']", ".x", "#x", "*[id*='x']">>
      [] kind = "class" -> <<".x", "*[class*='x']", "[class='x']">>
      [] kind = "xpath" -> <<"x", "x.replace('//', '//*')", "//*[contains(text(), 'x')]">>
      [] OTHER -> <<"[data-testid='x']", "[name='x']", "[placeholder='x']",
                    "text=x", "*[contains(text(), 'x')]">>

\* how the Playwright calls of the try block end: they succeed, one of them
\* raises, or the assertion's condition is false
TryOps == {"ok", "error", "assertion"}
\* what the LLM client's selector is worth: none returned, one that works,
\* one that does not
AiOutcomes == {"none", "works", "fails"}

\* length of the longest list _generate_alternative_selectors builds
MaxAlternatives == 5

Absent == "<absent>"
Falsy(v) == v \in {Absent, ""}

NoUiCall == [failure |-> "none", healed_by |-> "none", result |-> "none"]
NoUiStep == [action |-> "navigate", target |-> "generic"]
NoUiCfg == [self_heal |-> TRUE, ai |-> FALSE, vision |-> TRUE, max_retries |-> 0]
NoWebStep == [action |-> Absent, selector |-> Absent, target |-> Absent,
              element |-> Absent, text |-> Absent, label |-> Absent,
              value |-> Absent]
NoSelector == <<"", Absent>>

UiIdle ==
    /\ uicomp = "none"
    /\ ui_cfg = NoUiCfg
    /\ ui_step = NoUiStep
    /\ upc = "idle"
    /\ ui_attempt = 0
    /\ ui_calls = 0
    /\ ui_last = NoUiCall
    /\ wstep = NoWebStep
    /\ suggestion = Absent
    /\ wpc = "idle"
    /\ resolved_by = "none"
    /\ wselector = NoSelector
    /\ llm_asked = FALSE
    /\ wresult = "none"
    /\ store0 = <<>>

\* ---------------------------------------------------------------- UIMCP

\* number of alternative selectors the step's action is replayed on
Alternatives(step) ==
    IF step.action \in HealableActions
    THEN Len(generate_alternative_selectors(step.target)) ELSE 0

\* the try block of UIMCP._execute_step: "ok" when it completes, else the
\* exception it raises.  alt is the index of the first alternative selector
\* that works (0: none does).
TryBlock(step, op, alt) ==
    CASE step.action \in HealableActions ->
            IF op = "ok" \/ alt > 0 THEN "ok" ELSE "PlaywrightError"
      [] step.action \in AssertActions ->
            IF op = "ok" THEN "ok"
            ELSE IF op = "assertion" THEN "AssertionError"
            ELSE "PlaywrightError"
      [] step.action = "screenshot" -> "ok"
      [] step.action = "drag" -> "ValueError"
      [] OTHER -> IF op = "ok" THEN "ok" ELSE "PlaywrightError"

\* faulty variant: only the three actions the recovery can replay are healed
UIMCP_self_heal_replayed_only(step, cfg, alt, ai, body) ==
    IF step.action \in HealableActions /\ alt > 0 THEN "alternative"
    ELSE IF step.action \in HealableActions /\ cfg.ai /\ ai = "works" THEN "ai"
    ELSE IF step.action \in HealableActions /\ cfg.vision /\ body THEN "vision"
    ELSE "none"

\* UIMCP._self_heal: the method that healed the step, "none" for False.
\* Method 1 replays click/fill/type on the alternatives; methods 2 and 3
\* replay them on the suggested selector and on "body", and return True
\* without replaying anything for every other action.
UIMCP_self_heal(step, cfg, alt, ai, body) ==
    IF step.action \in HealableActions /\ alt > 0 THEN "alternative"
    ELSE IF cfg.ai /\ ai # "none" /\ (step.action \in HealableActions => ai = "works")
    THEN "ai"
    ELSE IF cfg.vision /\ (step.action \in HealableActions => body) THEN "vision"
    ELSE "none"

\* UIMCP._execute_step, whole: the try block, and on an exception the
\* self-heal (when ui.self_heal) followed by `return` or `raise`
UIMCP_execute_step(step, cfg, op, alt1, alt2, ai, body) ==
    LET failure == TryBlock(step, op, alt1)
        by == IF failure # "ok" /\ cfg.self_heal
              THEN UIMCP_self_heal(step, cfg, alt2, ai, body) ELSE "none"
    IN [failure |-> failure, healed_by |-> by,
        result |-> IF failure = "ok" \/ by # "none" THEN "returned" ELSE "raised"]

\* one pass of MCPBase.run's `while True` up to the end of the try block
UiExecuteStep(op, alt1, alt2, ai, body) ==
    /\ uicomp = "UIMCP"
    /\ upc = "execute"
    /\ ui_calls < MaxUiCalls
    /\ op = "assertion" => ui_step.action \in AssertActions
    /\ alt1 <= Alternatives(ui_step)
    /\ alt2 <= Alternatives(ui_step)
    /\ LET call == UIMCP_execute_step(ui_step, ui_cfg, op, alt1, alt2, ai, body)
       IN /\ ui_last' = call
          /\ IF call.result = "returned"
             THEN upc' = "passed" /\ UNCHANGED ui_attempt
             ELSE upc' = "handler" /\ ui_attempt' = ui_attempt + 1
    /\ ui_calls' = ui_calls + 1
    /\ UNCHANGED <<uicomp, ui_cfg, ui_step, wstep, suggestion, wpc, resolved_by,
                   wselector, llm_asked, wresult, store0>>

\* the except block of MCPBase.run: its own _self_heal call, then `continue`,
\* `raise` once attempt >= max_retries, or sleep and retry
UiEngineHeal(alt, ai, body) ==
    /\ uicomp = "UIMCP"
    /\ upc = "handler"
    /\ alt <= Alternatives(ui_step)
    /\ upc' = IF UIMCP_self_heal(ui_step, ui_cfg, alt, ai, body) # "none" THEN "execute"
              ELSE IF ui_attempt >= ui_cfg.max_retries THEN "failed"
              ELSE "execute"
    /\ UNCHANGED <<uicomp, ui_cfg, ui_step, ui_attempt, ui_calls, ui_last, wstep,
                   suggestion, wpc, resolved_by, wselector, llm_asked, wresult,
                   store0>>

\* ------------------------------------------------------------ WebDriver

WebActions == {Absent, "goto", "click", "fill", "assert_text", "hover"}
WebSupported == {"click", "fill", "assert_text"}

\* the steps explored: each field is absent or holds one value; the
\* selector may also be present and empty
WebSteps ==
    [action : WebActions, selector : {Absent, "", "#s"}, target : {Absent, "Login"},
     element : {Absent, "button"}, text : {Absent, "Sign in"},
     label : {Absent, "Sign"}, value : {Absent, "bob"}]

\* LocatorRepository.compute_step_key for steps without 'locator' and
\* 'placeholder': the action and the first field present
compute_step_key(step) ==
    LET action == IF step.action = Absent THEN "unknown" ELSE step.action
    IN IF step.selector # Absent THEN <<action, step.selector>>
       ELSE IF step.element # Absent THEN <<action, step.element>>
       ELSE IF step.label # Absent THEN <<action, step.label>>
       ELSE IF step.text # Absent THEN <<action, step.text>>
       ELSE IF step.value # Absent THEN <<action, step.value>>
       ELSE IF step.target # Absent THEN <<action, step.target>>
       ELSE <<action, "json.dumps(step)">>

\* locators an earlier run may have stored
StoredLocators ==
    { [type |-> "css", value |-> "#stored"],
      [type |-> "xpath", value |-> "//stored"],
      [type |-> "text", value |-> "Stored"],
      [type |-> "id", value |-> "stored"] }

\* the locators table before the step: empty, or holding one version added
\* for this step's key, for another step's key or for the other context
StoresBefore(step) ==
    {<<>>}
    \cup {LocatorRepository_add_locator(<<>>, "ui", compute_step_key(step), loc, 0).table :
            loc \in StoredLocators}
    \cup {LocatorRepository_add_locator(<<>>, "mobile", compute_step_key(step),
                                        [type |-> "css", value |-> "#stored"], 0).table}
    \cup {LocatorRepository_add_locator(<<>>, "ui", <<"click", "other">>,
                                        [type |-> "css", value |-> "#stored"], 0).table}

\* the selector built from the stored locator
StoredSelector(stored) ==
    IF stored.type \in {"css", "selector", "aria", "role"} THEN <<"", stored.value>>
    ELSE IF stored.type = "xpath" THEN <<"xpath=", stored.value>>
    ELSE IF stored.type = "text" THEN <<"text=", stored.value>>
    ELSE <<"", stored.value>>

\* the keys of the fallback heuristics, in the order of the loop
HeuristicKeys == <<"selector", "target", "element", "text", "label", "value">>

Field(step, key) ==
    CASE key = "selector" -> step.selector
      [] key = "target" -> step.target
      [] key = "element" -> step.element
      [] key = "text" -> step.text
      [] key = "label" -> step.label
      [] OTHER -> step.value

\* index in HeuristicKeys of the first key with a truthy value, 0 if none
FirstHeuristic(step) ==
    LET hits == {k \in 1..Len(HeuristicKeys) : ~Falsy(Field(step, HeuristicKeys[k]))}
    IN IF hits = {} THEN 0 ELSE CHOOSE k \in hits : \A j \in hits : k <= j

\* faulty variant: the step's own selector wins over the stored locator
ResolveSelectorStepFirst(step, stored, sugg) ==
    IF ~Falsy(step.selector)
    THEN [selector |-> <<"", step.selector>>, by |-> "step", asked |-> FALSE]
    ELSE IF stored # {}
    THEN [selector |-> StoredSelector(CHOOSE s \in stored : TRUE), by |-> "stored",
          asked |-> FALSE]
    ELSE IF FirstHeuristic(step) # 0
    THEN [selector |-> <<"text=", Field(step, HeuristicKeys[FirstHeuristic(step)])>>,
          by |-> "heuristic", asked |-> FALSE]
    ELSE IF ~Falsy(sugg)
    THEN [selector |-> <<"", sugg>>, by |-> "suggestion", asked |-> TRUE]
    ELSE [selector |-> NoSelector, by |-> "none", asked |-> TRUE]

\* "Prepare selector" of WebDriver._execute_step: the selector, the source
\* it came from, and whether llm.suggest_ui_locator was called
ResolveSelector(step, stored, sugg) ==
    LET first == IF stored # {} THEN StoredSelector(CHOOSE s \in stored : TRUE)
                 ELSE <<"", step.selector>>
    IN IF ~Falsy(first[2])
       THEN [selector |-> first, by |-> IF stored # {} THEN "stored" ELSE "step",
             asked |-> FALSE]
       ELSE IF FirstHeuristic(step) # 0
       THEN [selector |-> <<"text=", Field(step, HeuristicKeys[FirstHeuristic(step)])>>,
             by |-> "heuristic", asked |-> FALSE]
       ELSE IF ~Falsy(sugg)
       THEN [selector |-> <<"", sugg>>, by |-> "suggestion", asked |-> TRUE]
       ELSE [selector |-> NoSelector, by |-> "none", asked |-> TRUE]

\* faulty variant: every resolved selector is persisted
PersistsLocatorAlways(by) == by # "none"

\* `self.loc_repo.add_locator(...)` sits inside `if suggestion:`
PersistsLocator(by) == by = "suggestion"

\* WebDriver._execute_step, whole; ok tells whether the page calls succeed
WebExecuteStep(ok) ==
    /\ uicomp = "WebDriver"
    /\ wpc = "execute"
    /\ wpc' = "done"
    /\ IF Falsy(wstep.action)
       THEN /\ wresult' = "ValueError"
            /\ UNCHANGED <<resolved_by, wselector, llm_asked, locVars>>
       ELSE IF wstep.action = "goto"
       THEN /\ wresult' = IF Falsy(wstep.target) THEN "ValueError"
                          ELSE IF ok THEN "returned" ELSE "raised"
            /\ UNCHANGED <<resolved_by, wselector, llm_asked, locVars>>
       ELSE LET key == compute_step_key(wstep)
                res == ResolveSelector(wstep, get_locator(locators, "ui", key), suggestion)
            IN /\ resolved_by' = res.by
               /\ wselector' = res.selector
               /\ llm_asked' = res.asked
               /\ IF PersistsLocator(res.by)
                  THEN AddLocator("ui", key, [type |-> "css", value |-> res.selector[2]])
                  ELSE UNCHANGED locVars
               /\ wresult' = IF wstep.action \notin WebSupported THEN "ValueError"
                             ELSE IF ok THEN "returned" ELSE "raised"
    /\ UNCHANGED <<uicomp, ui_cfg, ui_step, upc, ui_attempt, ui_calls, ui_last,
                   wstep, suggestion, store0>>

\* a UIMCP about to run one step, or a WebDriver about to execute one, next
\* to a locator store
UiInit ==
    /\ uicomp \in {"UIMCP", "WebDriver"}
    /\ ui_cfg \in [self_heal : BOOLEAN, ai : BOOLEAN, vision : BOOLEAN,
                   max_retries : 0..MaxRetriesBound]
    /\ ui_step \in [action : UiActions, target : TargetKinds]
    /\ wstep \in WebSteps
    /\ suggestion \in {Absent, "#suggested"}
    /\ uicomp = "UIMCP" =>
          /\ wstep = NoWebStep
          /\ suggestion = Absent
          /\ upc = "execute"
          /\ wpc = "idle"
    /\ uicomp = "WebDriver" =>
          /\ ui_cfg = NoUiCfg
          /\ ui_step = NoUiStep
          /\ upc = "idle"
          /\ wpc = "execute"
    /\ ui_attempt = 0
    /\ ui_calls = 0
    /\ ui_last = NoUiCall
    /\ resolved_by = "none"
    /\ wselector = NoSelector
    /\ llm_asked = FALSE
    /\ wresult = "none"
    /\ impl = "LocatorRepository"
    /\ locators \in IF uicomp = "UIMCP"
                    THEN {t \in StoresBefore(wstep) : Len(t) = 1 /\ t[1].locator_type = "css"}
                    ELSE StoresBefore(wstep)
    /\ store0 = locators
    /\ clock = 1
    /\ last_add = NoCall
    /\ prev_locators = <<>>

\* ===================================================== MobileMCP._execute_step

MobileActions == {Absent, "tap", "send_keys", "assert_text", "swipe",
                  "tap_coordinates", "scroll"}
CoordinateActions == {"tap", "send_keys", "tap_coordinates"}
\* the actions the candidate loop performs on a found element
LoopActions == {"tap", "send_keys", "assert_text", "swipe"}

\* step['locator'] as a dictionary with type and value; NoLocator: no such key
NoLocator == [type |-> Absent, value |-> Absent]
StepLocators ==
    { NoLocator,
      [type |-> "id", value |-> "login"],
      [type |-> "xpath", value |-> "//login"] }

MobileSteps == [action : MobileActions, locator : StepLocators, xy : BOOLEAN]

\* locators an earlier run may have stored for the step
MobileStored ==
    { [type |-> "id", value |-> "login"],
      [type |-> "accessibility_id", value |-> "Login"] }

CoordinateLocator == [type |-> "coordinates", value |-> "x,y"]

\* the most candidates one step can have
MaxCandidates == 3

\* LocatorRepo.compute_step_key for steps that carry at most a 'locator'
\* besides the action
LocatorRepo_compute_step_key(step) ==
    LET action == IF step.action = Absent THEN "unknown" ELSE step.action
    IN IF step.locator # NoLocator THEN <<action, step.locator>>
       ELSE <<action, [type |-> "json.dumps", value |-> "step"]>>

MobileStoresBefore(step) ==
    {<<>>}
    \cup {LocatorRepo_add_locator(<<>>, "mobile", LocatorRepo_compute_step_key(step),
                                  loc, 0).table : loc \in MobileStored}
    \cup {LocatorRepo_add_locator(<<>>, "ui", LocatorRepo_compute_step_key(step),
                                  [type |-> "id", value |-> "login"], 0).table}

NoMobileStep == [action |-> Absent, locator |-> NoLocator, xy |-> FALSE]

MobIdle ==
    /\ mob_step = NoMobileStep
    /\ mob_pc = "idle"
    /\ mob_works = {}
    /\ mob_tried = <<>>
    /\ mob_chosen = NoLocator
    /\ mob_result = "none"
    /\ mob_store0 = <<>>

\* a MobileMCP with a working LocatorRepo about to execute one step
MobInit ==
    /\ mob_step \in MobileSteps
    /\ mob_pc = "execute"
    /\ mob_works = {}
    /\ mob_tried = <<>>
    /\ mob_chosen = NoLocator
    /\ mob_result = "none"
    /\ impl = "LocatorRepo"
    /\ locators \in MobileStoresBefore(mob_step)
    /\ mob_store0 = locators
    /\ clock = 1
    /\ last_add = NoCall
    /\ prev_locators = <<>>

\* faulty variant: the step's own locator is tried before the stored one
CandidatesStepFirst(step, stored) ==
    (IF step.locator # NoLocator THEN <<step.locator>> ELSE <<>>)
    \o (IF stored # {} THEN <<CHOOSE s \in stored : TRUE>> ELSE <<>>)
    \o (IF step.action \in CoordinateActions /\ step.xy
        THEN <<CoordinateLocator>> ELSE <<>>)

\* "Determine list of candidate locators in order of preference"
Candidates(step, stored) ==
    (IF stored # {} THEN <<CHOOSE s \in stored : TRUE>> ELSE <<>>)
    \o (IF step.locator # NoLocator THEN <<step.locator>> ELSE <<>>)
    \o (IF step.action \in CoordinateActions /\ step.xy
        THEN <<CoordinateLocator>> ELSE <<>>)

\* whether the loop body ends in `chosen_locator = cand; break` for the
\* candidate at position k; works holds the positions whose driver calls
\* (wait, find, click / send_keys / text comparison, tap) succeed
Adopts(step, cands, k, works) ==
    IF cands[k].type = "coordinates"
    THEN step.action \in {"tap", "send_keys"} /\ k \in works
    ELSE step.action \in LoopActions /\ k \in works

\* position of the adopted candidate, 0 when the loop ends without one
ChosenIndex(step, cands, works) ==
    LET hits == {k \in 1..Len(cands) : Adopts(step, cands, k, works)}
    IN IF hits = {} THEN 0 ELSE CHOOSE k \in hits : \A j \in hits : k <= j

\* faulty variant: the adopted locator is stored again even when it is the
\* stored one
MustPersistAlways(chosen, stored) ==
    chosen.type # "coordinates"

\* the condition in front of locator_repo.add_locator
MustPersist(chosen, stored) ==
    /\ chosen.type # "coordinates"
    /\ (stored = {} \/ chosen \notin stored)

\* MobileMCP._execute_step, whole.  post tells whether the closing
\* wait_for_element_mobile on the chosen locator finds it; other tells
\* whether the swipe or the direct coordinate tap succeeds.
MobileExecuteStep(works, post, other) ==
    /\ mob_pc = "execute"
    /\ mob_pc' = "done"
    /\ LET key == LocatorRepo_compute_step_key(mob_step)
           stored == get_locator(locators, "mobile", key)
           cands == Candidates(mob_step, stored)
           c == ChosenIndex(mob_step, cands, works)
           chosen == IF c = 0 THEN NoLocator ELSE cands[c]
       IN /\ works \subseteq 1..Len(cands)
          /\ mob_works' = works
          /\ IF Falsy(mob_step.action)
             THEN /\ mob_result' = "ValueError"
                  /\ mob_tried' = <<>>
                  /\ mob_chosen' = NoLocator
                  /\ UNCHANGED locVars
             ELSE /\ mob_tried' = IF c = 0 THEN cands ELSE SubSeq(cands, 1, c)
                  /\ mob_chosen' = chosen
                  /\ IF mob_step.action = "swipe"
                     THEN /\ mob_result' = IF other THEN "returned" ELSE "raised"
                          /\ UNCHANGED locVars
                     ELSE IF mob_step.action = "tap_coordinates" /\ c = 0 /\ mob_step.xy
                     THEN /\ mob_result' = IF other THEN "returned" ELSE "raised"
                          /\ UNCHANGED locVars
                     ELSE IF c = 0
                     THEN /\ mob_result' = IF works # 1..Len(cands) \/ cands = <<>>
                                           THEN "raised" ELSE "ValueError"
                          /\ UNCHANGED locVars
                     ELSE /\ IF MustPersist(chosen, stored)
                             THEN AddLocator("mobile", key, chosen)
                             ELSE UNCHANGED locVars
                          /\ mob_result' = IF chosen.type = "coordinates" \/ post
                                           THEN "returned" ELSE "raised"
    /\ UNCHANGED <<mob_step, mob_store0>>

\* ================================================================= LLMAgent

LlmRequests == {"classify", "translate_api", "translate_sql", "suggest_ui_locator"}

\* the text argument of the request: 'Tap go', 'GET', 'sel', 'x', '', and the
\* commands 'POST x', 'put', 'select'
LlmTexts ==
    CombinedTexts
    \cup { <<"P", "O", "S", "T", " ", "x">>, <<"p", "u", "t">>,
           <<"s", "e", "l", "e", "c", "t">> }

\* what provider.chat returned as a non-empty string, with what json.loads
\* makes of it: "invalid" (JSONDecodeError), "object" (a dict) or "other"
\* (any other JSON value).  'api', ' UI ', 'web', '{...}', 'null'.
LlmResponses ==
    { [text |-> <<"a", "p", "i">>, json |-> "invalid"],
      [text |-> <<" ", "U", "I", " ">>, json |-> "invalid"],
      [text |-> <<"w", "e", "b">>, json |-> "invalid"],
      [text |-> <<"{", "}">>, json |-> "object"],
      [text |-> <<"n", "u", "l", "l">>, json |-> "other"] }

\* None, as the response of _call_llm
NoResponse == [text |-> <<>>, json |-> "none"]

\* how one provider.chat call ends: it returns None or '', it raises, or it
\* returns a non-empty string
ChatRaises == [text |-> <<>>, json |-> "raise"]
ChatOutcomes == {NoResponse, ChatRaises} \cup LlmResponses

NoOutput == [kind |-> "pending", value |-> <<>>]

LlmIdle ==
    /\ llm_provider = FALSE
    /\ llm_retries = 0
    /\ llm_request = "classify"
    /\ llm_text = <<>>
    /\ llm_keywords = << {}, {}, {}, {} >>
    /\ llm_pc = "idle"
    /\ llm_attempt = 0
    /\ llm_calls = 0
    /\ llm_sleeps = 0
    /\ llm_response = NoResponse
    /\ llm_out = NoOutput

\* an LLMAgent receiving one request
LlmInit ==
    /\ llm_provider \in BOOLEAN
    /\ llm_retries \in 0..MaxLlmRetries
    /\ llm_request \in LlmRequests
    /\ llm_text \in LlmTexts
    /\ llm_keywords \in KeywordConfigs
    /\ llm_pc = "start"
    /\ llm_attempt = 0
    /\ llm_calls = 0
    /\ llm_sleeps = 0
    /\ llm_response = NoResponse
    /\ llm_out = NoOutput

RECURSIVE StripLeft(_)
StripLeft(str) ==
    IF str # <<>> /\ Head(str) = " " THEN StripLeft(Tail(str)) ELSE str

RECURSIVE StripRight(_)
StripRight(str) ==
    IF str # <<>> /\ str[Len(str)] = " "
    THEN StripRight(SubSeq(str, 1, Len(str) - 1)) ELSE str

\* str.strip()
Strip(str) == StripRight(StripLeft(str))

\* LLMAgent._heuristic_classify: ui, api, mobile, sql keywords in turn
\* against the lower-cased text, 'ui' when none occurs
heuristic_classify(text, kwmap) ==
    LET hits == {c \in 1..Len(Categories) :
                    \E kw \in kwmap[c] : Contains(Lower(text), kw)}
    IN IF hits = {} THEN Categories[1]
       ELSE Categories[CHOOSE c \in hits : \A d \in hits : c <= d]

\* LLMAgent._heuristic_api_translation: the method, and whether the URL is
\* taken from the command or built from base_url
heuristic_api_translation(command) ==
    << IF Contains(Lower(command), <<"p", "o", "s", "t">>) THEN "POST"
       ELSE IF Contains(Lower(command), <<"p", "u", "t">>) THEN "PUT"
       ELSE IF Contains(Lower(command), <<"d", "e", "l", "e", "t", "e">>) THEN "DELETE"
       ELSE "GET",
       IF Contains(command, <<"h", "t", "t", "p">>) THEN "url of the command"
       ELSE "base_url/api" >>

\* LLMAgent._heuristic_sql_translation: the statement it builds
heuristic_sql_translation(command) ==
    << IF Contains(Lower(command), <<"s", "e", "l", "e", "c", "t">>) THEN "SELECT * FROM"
       ELSE IF Contains(Lower(command), <<"i", "n", "s", "e", "r", "t">>) THEN "INSERT INTO"
       ELSE IF Contains(Lower(command), <<"u", "p", "d", "a", "t", "e">>) THEN "UPDATE"
       ELSE IF Contains(Lower(command), <<"d", "e", "l", "e", "t", "e">>) THEN "DELETE FROM"
       ELSE "the command" >>

\* what the request returns without a usable answer of the provider
Heuristic(request, text, kwmap) ==
    CASE request = "classify" ->
            [kind |-> "heuristic", value |-> heuristic_classify(text, kwmap)]
      [] request = "translate_api" ->
            [kind |-> "heuristic", value |-> heuristic_api_translation(text)]
      [] request = "translate_sql" ->
            [kind |-> "heuristic", value |-> heuristic_sql_translation(text)]
      [] OTHER -> [kind |-> "None", value |-> <<>>]

\* the part of classify, translate_api, translate_sql and suggest_ui_locator
\* that follows `response = self._call_llm(messages)`
Interpret(request, response, text, kwmap) ==
    IF response = NoResponse THEN Heuristic(request, text, kwmap)
    ELSE CASE request = "classify" ->
                 IF Lower(Strip(response.text)) \in BackendTypes
                 THEN [kind |-> "provider", value |-> Lower(Strip(response.text))]
                 ELSE Heuristic(request, text, kwmap)
           [] request = "translate_api" ->
                 IF response.json = "invalid" THEN Heuristic(request, text, kwmap)
                 ELSE IF response.json = "object"
                 THEN [kind |-> "provider", value |-> response.text]
                 ELSE [kind |-> "raised", value |-> <<"AttributeError">>]
           [] request = "translate_sql" ->
                 IF response.json = "invalid" THEN Heuristic(request, text, kwmap)
                 ELSE [kind |-> "provider", value |-> response.text]
           [] OTHER -> [kind |-> "provider", value |-> Strip(response.text)]

\* faulty variant: one more pass than configured
LastAttemptPlusOne(retries) == retries + 1

\* `for attempt in range(1, self.retries + 1)`: the last value of attempt
LastAttempt(retries) == retries

\* entry of the request: the heuristic (or None) at once without an active
\* provider, else the start of _call_llm's loop
LlmStart ==
    /\ llm_pc = "start"
    /\ IF ~llm_provider
       THEN /\ llm_out' = Heuristic(llm_request, llm_text, llm_keywords)
            /\ llm_pc' = "done"
            /\ UNCHANGED llm_attempt
       ELSE /\ llm_attempt' = 1
            /\ llm_pc' = IF 1 <= LastAttempt(llm_retries) THEN "loop" ELSE "finish"
            /\ UNCHANGED llm_out
    /\ UNCHANGED <<llm_provider, llm_retries, llm_request, llm_text, llm_keywords,
                   llm_calls, llm_sleeps, llm_response>>

\* one pass of _call_llm's loop: the chat call, `return result` when it is
\* truthy, and in the except block `break` on the last attempt or a sleep
LlmChat(outcome) ==
    /\ llm_pc = "loop"
    /\ llm_calls' = llm_calls + 1
    /\ IF outcome \in LlmResponses
       THEN /\ llm_response' = outcome
            /\ llm_pc' = "finish"
            /\ UNCHANGED <<llm_attempt, llm_sleeps>>
       ELSE /\ llm_response' = NoResponse
            /\ llm_sleeps' = IF outcome = ChatRaises /\ llm_attempt < llm_retries
                             THEN llm_sleeps + 1 ELSE llm_sleeps
            /\ IF (outcome = ChatRaises /\ llm_attempt >= llm_retries)
                  \/ llm_attempt >= LastAttempt(llm_retries)
               THEN llm_pc' = "finish" /\ UNCHANGED llm_attempt
               ELSE llm_pc' = "loop" /\ llm_attempt' = llm_attempt + 1
    /\ UNCHANGED <<llm_provider, llm_retries, llm_request, llm_text, llm_keywords,
                   llm_out>>

\* the request's return (or the exception leaving it)
LlmFinish ==
    /\ llm_pc = "finish"
    /\ llm_out' = Interpret(llm_request, llm_response, llm_text, llm_keywords)
    /\ llm_pc' = "done"
    /\ UNCHANGED <<llm_provider, llm_retries, llm_request, llm_text, llm_keywords,
                   llm_attempt, llm_calls, llm_sleeps, llm_response>>

\* ======================================================== compute_step_key

\* the steps explored: every field is absent or holds one value
KeySteps ==
    [action : {Absent, "click"}, selector : {Absent, "#s"},
     locator : {NoLocator, [type |-> "id", value |-> "login"]},
     element : {Absent, "button"}, label : {Absent, "Sign"},
     text : {Absent, "Sign in"}, value : {Absent, "bob"},
     placeholder : {Absent, "Name"}, target : {Absent, "Login"}]

NoKeyStep ==
    [action |-> Absent, selector |-> Absent, locator |-> NoLocator,
     element |-> Absent, label |-> Absent, text |-> Absent, value |-> Absent,
     placeholder |-> Absent, target |-> Absent]

KeyIdle ==
    /\ key_step = NoKeyStep
    /\ key_pc = "idle"
    /\ key_repo = <<>>
    /\ key_repository = <<>>

KeyInit ==
    /\ key_step \in KeySteps
    /\ key_pc = "compute"
    /\ key_repo = <<>>
    /\ key_repository = <<>>

\* step[k] for the string-valued fields
KeyGet(step, k) ==
    CASE k = "action" -> step.action
      [] k = "selector" -> step.selector
      [] k = "element" -> step.element
      [] k = "label" -> step.label
      [] k = "text" -> step.text
      [] k = "value" -> step.value
      [] k = "placeholder" -> step.placeholder
      [] OTHER -> step.target

\* sorted(step) for a step without selector and locator
SortedStepKeys ==
    <<"action", "element", "label", "placeholder", "target", "text", "value">>

RECURSIVE JsonPairs(_, _, _)
JsonPairs(step, keys, i) ==
    IF i > Len(keys) THEN <<>>
    ELSE (IF KeyGet(step, keys[i]) # Absent
          THEN <<keys[i], KeyGet(step, keys[i])>> ELSE <<>>)
         \o JsonPairs(step, keys, i + 1)

\* json.dumps({k: step[k] for k in sorted(step)}, sort_keys=True), as tokens
StepJson(step) == <<"{">> \o JsonPairs(step, SortedStepKeys, 1) \o <<"}">>

\* json.dumps(step["locator"], sort_keys=True), as tokens
LocatorJson(loc) == <<"{", "type", loc.type, "value", loc.value, "}">>

\* the body both methods share: f"{action}:{...}" as the sequence of the
\* action and the tokens after the colon; fields is the tuple of the
\* `for key in (...)` loop
StepKey(step, fields) ==
    LET action == IF step.action = Absent THEN "unknown" ELSE step.action
        present == {k \in 1..Len(fields) : KeyGet(step, fields[k]) # Absent}
    IN IF step.selector # Absent THEN <<action, step.selector>>
       ELSE IF step.locator # NoLocator THEN <<action>> \o LocatorJson(step.locator)
       ELSE IF present # {}
       THEN <<action, KeyGet(step, fields[CHOOSE k \in present : \A j \in present : k <= j])>>
       ELSE <<action>> \o StepJson(step)

\* LocatorRepo.compute_step_key
LocatorRepo_step_key(step) ==
    StepKey(step, <<"element", "label", "text", "value", "placeholder">>)

\* LocatorRepository.compute_step_key
LocatorRepository_step_key(step) ==
    StepKey(step, <<"element", "label", "text", "value", "placeholder", "target">>)

\* both methods applied to the step
ComputeKeys ==
    /\ key_pc = "compute"
    /\ key_repo' = LocatorRepo_step_key(key_step)
    /\ key_repository' = LocatorRepository_step_key(key_step)
    /\ key_pc' = "done"
    /\ UNCHANGED key_step

\* ===================================================== wait_for_page_stable

\* the two copies of the function: src/utils and automation_framework/utils
WaitImpls == {"utils", "automation_framework"}

IndicatorSelectors == {"#spinner", ".overlay"}

\* the spinners and the overlays lists of the wait repository's ui section
IndicatorLists == UNION {[1..n -> IndicatorSelectors] : n \in 0..MaxIndicators}

\* how a page wait ends: the condition is met, the wait times out (for an
\* indicator: it stays visible), or the call raises another error
WaitOutcomes == {"met", "timeout", "error"}

WaitIdle ==
    /\ wait_impl = "utils"
    /\ wait_page = FALSE
    /\ wait_spinners = <<>>
    /\ wait_overlays = <<>>
    /\ wait_pc = "idle"
    /\ wait_idx = 0
    /\ wait_network = <<>>
    /\ wait_calls = <<>>
    /\ wait_failed = {}

\* entry of wait_for_page_stable(page, config)
WaitInit ==
    /\ wait_impl \in WaitImpls
    /\ wait_page \in BOOLEAN
    /\ wait_spinners \in IndicatorLists
    /\ wait_overlays \in IndicatorLists
    /\ wait_pc = "start"
    /\ wait_idx = 0
    /\ wait_network = <<>>
    /\ wait_calls = <<>>
    /\ wait_failed = {}

\* selectors = repo['ui']['spinners'] + repo['ui']['overlays']
WaitSelectors == wait_spinners \o wait_overlays

\* faulty variant: a failed wait leaves the function
AfterWaitPropagates(outcome) == IF outcome = "met" THEN "continue" ELSE "raised"

\* `except Exception: pass` (the loop) and `except Exception as exc:
\* logger.debug(...)` (network idle): the function goes on
AfterWait(outcome) == "continue"

\* `if not page: return`, else page.wait_for_load_state("networkidle") in
\* its try block, then the wait repository is loaded
WaitNetworkIdle(outcome) ==
    /\ wait_pc = "start"
    /\ IF ~wait_page
       THEN /\ wait_pc' = "returned"
            /\ UNCHANGED <<wait_network, wait_idx>>
       ELSE /\ wait_network' = Append(wait_network, outcome)
            /\ wait_idx' = 1
            /\ wait_pc' = IF AfterWait(outcome) = "raised" THEN "raised"
                          ELSE IF WaitSelectors = <<>> THEN "returned"
                          ELSE "loop"
    /\ UNCHANGED <<wait_impl, wait_page, wait_spinners, wait_overlays, wait_calls,
                   wait_failed>>

\* one pass of `for sel in selectors`:
\* page.wait_for_selector(sel, state="hidden", timeout=30000) in its try block
WaitIndicator(outcome) ==
    /\ wait_pc = "loop"
    /\ wait_calls' = Append(wait_calls, WaitSelectors[wait_idx])
    /\ wait_failed' = IF outcome = "met" THEN wait_failed ELSE wait_failed \cup {wait_idx}
    /\ wait_idx' = wait_idx + 1
    /\ wait_pc' = IF AfterWait(outcome) = "raised" THEN "raised"
                  ELSE IF wait_idx = Len(WaitSelectors) THEN "returned"
                  ELSE "loop"
    /\ UNCHANGED <<wait_impl, wait_page, wait_spinners, wait_overlays, wait_network>>

\* ============================= TestExecutor shared by run_version and run_all

Runs == 1..MaxRuns
PoolWorkers == 1..MaxWorkers
NoTask == [kind |-> "none", run |-> 0, idx |-> 0]
RunAllTask(r) == [kind |-> "run_all", run |-> r, idx |-> 0]
CaseTask(r, i) == [kind |-> "run_test_case", run |-> r, idx |-> i]

PoolIdle ==
    /\ pool_size = 0
    /\ pool_queue = <<>>
    /\ pool_worker = [w \in PoolWorkers |-> NoTask]
    /\ pool_shutdown = "no"
    /\ run_pc = [r \in Runs |-> "none"]
    /\ run_cases = [r \in Runs |-> 0]
    /\ run_futures = [r \in Runs |-> <<>>]
    /\ run_waited = [r \in Runs |-> 0]

\* create_app: TestExecutor(max_workers=workers); no request received yet
PoolInit ==
    /\ pool_size \in PoolWorkers
    /\ pool_queue = <<>>
    /\ pool_worker = [w \in PoolWorkers |-> NoTask]
    /\ pool_shutdown = "no"
    /\ run_pc = [r \in Runs |-> "none"]
    /\ run_cases = [r \in Runs |-> 0]
    /\ run_futures = [r \in Runs |-> <<>>]
    /\ run_waited = [r \in Runs |-> 0]

\* POST /run/{version_id}: router.executor.submit(router.run_all, test_cases_list)
RunVersion(r, n) ==
    /\ pool_shutdown = "no"
    /\ run_pc[r] = "none"
    /\ \A q \in Runs : q < r => run_pc[q] # "none"
    /\ run_pc' = [run_pc EXCEPT ![r] = "queued"]
    /\ run_cases' = [run_cases EXCEPT ![r] = n]
    /\ pool_queue' = Append(pool_queue, RunAllTask(r))
    /\ UNCHANGED <<pool_size, pool_worker, pool_shutdown, run_futures, run_waited>>

\* a thread of the ThreadPoolExecutor (at most max_workers of them) takes
\* the oldest work item of the queue
WorkerTake(w) ==
    /\ w \in 1..pool_size
    /\ pool_worker[w] = NoTask
    /\ pool_queue # <<>>
    /\ pool_worker' = [pool_worker EXCEPT ![w] = Head(pool_queue)]
    /\ pool_queue' = Tail(pool_queue)
    /\ run_pc' = IF Head(pool_queue).kind = "run_all"
                 THEN [run_pc EXCEPT ![Head(pool_queue).run] = "submitting"]
                 ELSE run_pc
    /\ UNCHANGED <<pool_size, pool_shutdown, run_cases, run_futures, run_waited>>

\* run_all on worker w, one pass of
\* `for tc in test_cases: futures.append(self.executor.submit(self.run_test_case, tc))`;
\* submit raises RuntimeError once the pool is shutting down, which ends run_all
RunAllSubmit(w) ==
    /\ pool_worker[w].kind = "run_all"
    /\ LET r == pool_worker[w].run
       IN /\ run_pc[r] = "submitting"
          /\ IF Len(run_futures[r]) = run_cases[r]
             THEN /\ run_pc' = [run_pc EXCEPT ![r] = "waiting"]
                  /\ UNCHANGED <<pool_queue, pool_worker, run_futures>>
             ELSE IF pool_shutdown # "no"
             THEN /\ run_pc' = [run_pc EXCEPT ![r] = "raised"]
                  /\ pool_worker' = [pool_worker EXCEPT ![w] = NoTask]
                  /\ UNCHANGED <<pool_queue, run_futures>>
             ELSE /\ pool_queue' = Append(pool_queue, CaseTask(r, Len(run_futures[r]) + 1))
                  /\ run_futures' = [run_futures EXCEPT ![r] = Append(@, "pending")]
                  /\ UNCHANGED <<pool_worker, run_pc>>
    /\ UNCHANGED <<pool_size, pool_shutdown, run_cases, run_waited>>

\* run_all on worker w, one pass of `for f in futures: f.result()`: the call
\* blocks until the future is done; an exception of the case is logged
RunAllWait(w) ==
    /\ pool_worker[w].kind = "run_all"
    /\ LET r == pool_worker[w].run
       IN /\ run_pc[r] = "waiting"
          /\ IF run_waited[r] = Len(run_futures[r])
             THEN /\ run_pc' = [run_pc EXCEPT ![r] = "returned"]
                  /\ pool_worker' = [pool_worker EXCEPT ![w] = NoTask]
                  /\ UNCHANGED run_waited
             ELSE /\ run_futures[r][run_waited[r] + 1] # "pending"
                  /\ run_waited' = [run_waited EXCEPT ![r] = @ + 1]
                  /\ UNCHANGED <<run_pc, pool_worker>>
    /\ UNCHANGED <<pool_size, pool_queue, pool_shutdown, run_cases, run_futures>>

\* run_test_case on worker w runs to its end; the future keeps its result
\* or its exception
RunCase(w, outcome) ==
    /\ pool_worker[w].kind = "run_test_case"
    /\ run_futures' = [run_futures EXCEPT
                          ![pool_worker[w].run][pool_worker[w].idx] = outcome]
    /\ pool_worker' = [pool_worker EXCEPT ![w] = NoTask]
    /\ UNCHANGED <<pool_size, pool_queue, pool_shutdown, run_pc, run_cases, run_waited>>

\* application shutdown: router.executor.shutdown() -> ThreadPoolExecutor.shutdown(wait=True)
ShutdownStart ==
    /\ pool_shutdown = "no"
    /\ pool_shutdown' = "waiting"
    /\ UNCHANGED <<pool_size, pool_queue, pool_worker, run_pc, run_cases, run_futures,
                   run_waited>>

\* shutdown(wait=True) joins the worker threads: they leave once the queue
\* is drained and their work item has ended
ShutdownReturn ==
    /\ pool_shutdown = "waiting"
    /\ pool_queue = <<>>
    /\ \A w \in PoolWorkers : pool_worker[w] = NoTask
    /\ pool_shutdown' = "returned"
    /\ UNCHANGED <<pool_size, pool_queue, pool_worker, run_pc, run_cases, run_futures,
                   run_waited>>

\* ================================= add_version from interleaving threads

\* the threads that share the VersionManager and its connection
\* (check_same_thread=False)
VersionThreads == {"v1", "v2"}

VtIdle ==
    /\ vt_rows = <<>>
    /\ vt_pc = [t \in VersionThreads |-> "idle"]
    /\ vt_story = [t \in VersionThreads |-> ""]
    /\ vt_number = [t \in VersionThreads |-> 0]
    /\ vt_calls = 0
    /\ vt_overlap = FALSE

\* a VersionManager on a fresh database, no call in progress
VtInit ==
    /\ vt_rows = <<>>
    /\ vt_pc = [t \in VersionThreads |-> "idle"]
    /\ vt_story = [t \in VersionThreads |-> ""]
    /\ vt_number = [t \in VersionThreads |-> 0]
    /\ vt_calls = 0
    /\ vt_overlap = FALSE

\* version_number of the row _get_latest_version_info returns, 0 for None
LatestNumber(tbl, story) ==
    LET nums == {tbl[r].version_number : r \in {q \in 1..Len(tbl) : tbl[q].user_story = story}}
    IN IF nums = {} THEN 0 ELSE CHOOSE n \in nums : \A m \in nums : m <= n

\* thread t enters add_version(user_story, ...)
VtCall(t, story) ==
    /\ vt_pc[t] = "idle"
    /\ vt_calls < MaxVersionCalls
    /\ vt_calls' = vt_calls + 1
    /\ vt_pc' = [vt_pc EXCEPT ![t] = "read"]
    /\ vt_story' = [vt_story EXCEPT ![t] = story]
    /\ UNCHANGED <<vt_rows, vt_number, vt_overlap>>

\* latest = self._get_latest_version_info(user_story);
\* version_number = (latest[1] + 1) if latest else 1
VtRead(t) ==
    /\ vt_pc[t] = "read"
    /\ vt_number' = [vt_number EXCEPT ![t] = LatestNumber(vt_rows, vt_story[t]) + 1]
    /\ vt_pc' = [vt_pc EXCEPT ![t] = "insert"]
    /\ vt_overlap' = (vt_overlap \/ \E u \in VersionThreads \ {t} :
                         vt_pc[u] = "insert" /\ vt_story[u] = vt_story[t])
    /\ UNCHANGED <<vt_rows, vt_story, vt_calls>>

\* INSERT INTO test_set_versions (user_story, version_number, ...); commit:
\* the table has no uniqueness constraint on (user_story, version_number)
VtInsert(t) ==
    /\ vt_pc[t] = "insert"
    /\ vt_rows' = Append(vt_rows, [user_story |-> vt_story[t],
                                   version_number |-> vt_number[t]])
    /\ vt_pc' = [vt_pc EXCEPT ![t] = "idle"]
    /\ UNCHANGED <<vt_story, vt_number, vt_calls, vt_overlap>>

\* ================================================================== claims

\* ----- drivers' run_test_case (DriverSpec)

CountStatus(st) == Cardinality({r \in 1..Len(run_steps) : run_steps[r].status = st})

\* the derivation as the specification states it, over P, F, S with E = P + F
ClaimedStatus(P, F, S) ==
    LET E == P + F
    IN IF E = 0 /\ S > 0 THEN "skipped"
       ELSE IF F = 0 /\ S = 0 THEN "passed"
       ELSE IF F = E THEN "failed"
       ELSE "partial"

C2_EmptyCaseSkipped ==
    (dpc = "done" /\ Len(steps) = 0) => test_run = "skipped"

\* C3: a recorded step k with integer depends_on = i < k whose step i was
\* recorded failed or skipped is recorded skipped, and _execute_step was not
\* invoked for it (also along chains of dependencies).
C3_DependentSkipped ==
    \A k \in 0..(Len(run_steps) - 1) :
        \A i \in steps[k + 1].depends_on :
            (i < k /\ run_steps[i + 1].status \in {"failed", "skipped"})
                => /\ run_steps[k + 1].step_index = k
                   /\ run_steps[k + 1].status = "skipped"
                   /\ k \notin invoked

C3_Witness ==
    /\ Len(run_steps) = 3
    /\ steps[2].depends_on = {0}
    /\ steps[3].depends_on = {1}
    /\ run_steps[1].status = "failed"
    /\ run_steps[2].status = "skipped"
    /\ run_steps[3].status = "skipped"
    /\ invoked = {0}

\* TRUE when recorded step j depends on a step that was recorded failed or
\* skipped
DependsOnUnpassed(j) ==
    \E i \in steps[j + 1].depends_on :
        i < j /\ run_steps[i + 1].status \in {"failed", "skipped"}

StepStatuses == {"passed", "failed", "skipped"}

TerminalStatuses == {"passed", "failed", "partial", "skipped"}

\* C22: run_test_case records exactly one run_steps row per step, in
\* increasing step_index order 0..n-1, each with status passed, failed or
\* skipped, so that P + F + S = n; a failed or skipped step does not keep the
\* later steps from being processed (a failure and a pass give 'partial').
C22_OneRowPerStep ==
    /\ Len(run_steps) <= Len(steps)
    /\ \A r \in 1..Len(run_steps) :
          /\ run_steps[r].step_index = r - 1
          /\ run_steps[r].status \in StepStatuses
    /\ dpc \in {"loop", "done"} =>
          passed_steps + failed_steps + skipped_steps = Len(run_steps)
    /\ dpc = "done" =>
          /\ Len(run_steps) = Len(steps)
          /\ CountStatus("passed") + CountStatus("failed") + CountStatus("skipped")
                = Len(steps)
          /\ (CountStatus("failed") > 0 /\ CountStatus("passed") > 0)
                => test_run = "partial"

C22_Witness ==
    /\ dpc = "done"
    /\ driver = "web"
    /\ Len(steps) = 3
    /\ run_steps[1].status = "failed"
    /\ run_steps[2].status = "skipped"
    /\ run_steps[3].status = "passed"
    /\ run_steps[3].step_index = 2
    /\ test_run = "partial"

C4_HealedFailureKeepsRetries ==
    mpc = "raised" => unhealed[midx] >= max_retries

\* C5: with max_retries >= 1 and a _self_heal that never succeeds, a step that
\* raises on every attempt is executed exactly max_retries times and run then
\* raises.
C5_ExactlyMaxRetries ==
    (~heal_backend /\ max_retries >= 1) =>
        /\ \A i \in DOMAIN execs : execs[i] <= max_retries
        /\ mpc = "raised" =>
              /\ execs[midx] = max_retries
              /\ unhealed[midx] = max_retries
        /\ \A i \in DOMAIN execs :
              unhealed[i] = max_retries => (i = midx /\ mpc = "raised")

C5_Witness ==
    /\ ~heal_backend
    /\ max_retries = 2
    /\ mpc = "raised"
    /\ execs[midx] = 2
    /\ unhealed[midx] = 2

\* C6: whatever _self_heal returns, each step's _execute_step is invoked at
\* most max_retries times.
C6_AtMostMaxRetriesExecutions ==
    max_retries >= 1 => \A i \in DOMAIN execs : execs[i] <= max_retries

\* C7 (as claimed): when a step fails after exhausting its retries, the later
\* steps of the case are still executed by the time run has ended.
C7_LaterStepsStillRun ==
    mpc \in {"raised", "done"} =>
        \A i \in exhausted : \A j \in DOMAIN execs : j > i => execs[j] > 0

\* C7 (amended): when a step exhausts its retries, run raises at that step and
\* no later step of the list is executed.
C7_ExhaustionAbortsRun ==
    \A i \in exhausted :
        /\ mpc = "raised"
        /\ midx = i
        /\ \A j \in DOMAIN execs : j > i => execs[j] = 0

C7_Witness ==
    /\ mpc = "raised"
    /\ nsteps = 2
    /\ exhausted = {0}
    /\ execs[0] > 0
    /\ execs[1] = 0

\* C21: in the MCP engine a step that raises a validation error because a
\* required field is missing is not retried and does not make run raise.
C21_ValidationNotRetried ==
    \A i \in invalid :
        /\ execs[i] <= 1
        /\ ~(mpc = "raised" /\ midx = i)

RECURSIVE SumTo(_, _)
SumTo(f, n) == IF n < 0 THEN 0 ELSE f[n] + SumTo(f, n - 1)

\* failed attempts of step i so far, the one being handled included
FailedAttempts(i) ==
    unhealed[i] + healed[i] + (IF mpc = "heal" /\ midx = i THEN 1 ELSE 0)

EvidenceOf(i) == {e \in 1..Len(evidence) : evidence[e].step = i + 1}

\* C26: for every failed attempt of a step, run attaches exactly one evidence
\* text (step number, attempt number) before it invokes _self_heal, so when
\* run raises the evidence of every failed attempt of that step is recorded.
C26_EvidencePerFailedAttempt ==
    /\ \A i \in DOMAIN execs :
          /\ Cardinality(EvidenceOf(i)) = FailedAttempts(i)
          /\ {evidence[e].attempt : e \in EvidenceOf(i)} = 1..FailedAttempts(i)
    /\ mpc \in {"heal", "raised"} =>
          /\ attempt = FailedAttempts(midx)
          /\ attempt >= 1
          /\ evidence[Len(evidence)] = [step |-> midx + 1, attempt |-> attempt]

C26_Witness ==
    /\ mpc = "raised"
    /\ midx = 1
    /\ max_retries = 2
    /\ healed[1] = 1
    /\ healed[0] = 1
    /\ Cardinality(EvidenceOf(1)) = 3
    /\ Cardinality(EvidenceOf(0)) = 1

\* C27: run sleeps exactly once after each failed attempt whose self-heal did
\* not succeed and that was not the final one; it never sleeps after a
\* successful heal, after a successful step, or before raising.
C27_SleepBetweenAttempts ==
    /\ sleeps = SumTo(unhealed, nsteps - 1) - Cardinality(exhausted)
    /\ mpc = "raised" => sleeps = SumTo(unhealed, nsteps - 1) - 1
    /\ (\A i \in DOMAIN unhealed : unhealed[i] = 0) => sleeps = 0

C27_Witness ==
    /\ mpc = "raised"
    /\ max_retries = 2
    /\ nsteps = 2
    /\ midx = 1
    /\ unhealed[0] = 1 /\ healed[0] = 1
    /\ unhealed[1] = 2
    /\ sleeps = 2

\* ----- locator repository (LocatorSpec)

AllKeys == Contexts \X StepKeys

\* C8: every (context, step_key) has at most one active record, exactly one
\* once an add_locator for it has succeeded, and a successful add_locator
\* deactivates exactly the previously active record of its key.
C8_OneActivePerKey ==
    /\ \A ck \in AllKeys :
          /\ Cardinality(ActiveRows(locators, ck[1], ck[2])) <= 1
          /\ KeyRows(locators, ck[1], ck[2]) # {}
                => Cardinality(ActiveRows(locators, ck[1], ck[2])) = 1
    /\ last_add.result = "ok" =>
          /\ {r \in 1..Len(prev_locators) :
                 prev_locators[r].is_active = 1 /\ locators[r].is_active = 0}
               = ActiveRows(prev_locators, last_add.context, last_add.step_key)
          /\ ActiveRows(locators, last_add.context, last_add.step_key) = {Len(locators)}

C8_Witness ==
    /\ last_add.result = "ok"
    /\ ActiveRows(prev_locators, last_add.context, last_add.step_key) # {}
    /\ Cardinality(KeyRows(locators, last_add.context, last_add.step_key)) = 3
    /\ Cardinality(ActiveRows(locators, last_add.context, last_add.step_key)) = 1

\* C9: the n-th successful add_locator of a key stores version n (max existing
\* version + 1, or 1), so a key's versions are exactly 1..n and its active
\* record is the one with the highest version.
C9_VersionsAreOneToN ==
    /\ \A ck \in AllKeys :
          LET rows == KeyRows(locators, ck[1], ck[2])
          IN /\ \A r \in rows :
                   locators[r].version = Cardinality({q \in rows : q <= r})
             /\ {locators[r].version : r \in rows} = 1..Cardinality(rows)
             /\ \A r \in rows :
                   locators[r].is_active = 1 <=> locators[r].version = Cardinality(rows)
    /\ last_add.result = "ok" =>
          locators[Len(locators)].version
             = IF KeyRows(prev_locators, last_add.context, last_add.step_key) = {}
               THEN 1
               ELSE SetMax({prev_locators[r].version :
                              r \in KeyRows(prev_locators, last_add.context,
                                            last_add.step_key)}) + 1

C9_Witness ==
    /\ last_add.result = "ok"
    /\ locators[Len(locators)].version = 2
    /\ Len(locators) = 3
    /\ \E r \in 1..Len(locators) : locators[r].step_key # last_add.step_key

\* C10: add_locator never deletes a record nor changes the context, key, type,
\* value or version of an existing one; it only clears is_active and sets
\* updated_at on the previously active record of the same (context, step_key)
\* and appends one row; records of every other key are unchanged.
C10_AddLocatorFrame ==
    last_add.result # "none" =>
        /\ Len(locators) >= Len(prev_locators)
        /\ \A r \in 1..Len(prev_locators) :
              /\ locators[r].context = prev_locators[r].context
              /\ locators[r].step_key = prev_locators[r].step_key
              /\ locators[r].locator_type = prev_locators[r].locator_type
              /\ locators[r].locator_value = prev_locators[r].locator_value
              /\ locators[r].version = prev_locators[r].version
              /\ locators[r].created_at = prev_locators[r].created_at
              /\ locators[r] # prev_locators[r] =>
                    /\ r \in ActiveRows(prev_locators, last_add.context, last_add.step_key)
                    /\ locators[r].is_active = 0
        /\ last_add.result = "ok" =>
              /\ Len(locators) = Len(prev_locators) + 1
              /\ locators[Len(locators)].context = last_add.context
              /\ locators[Len(locators)].step_key = last_add.step_key
              /\ locators[Len(locators)].locator_type = last_add.locator.type
              /\ locators[Len(locators)].locator_value = last_add.locator.value
        /\ last_add.result = "ValueError" => locators = prev_locators

C10_Witness ==
    /\ last_add.result = "ok"
    /\ last_add.context = "mobile"
    /\ ActiveRows(prev_locators, "mobile", last_add.step_key) # {}
    /\ ActiveRows(locators, "ui", last_add.step_key) # {}
    /\ \E r \in 1..Len(prev_locators) : locators[r] # prev_locators[r]

\* ----- add_locator called from several threads (LocatorConcSpec)

ConcKeys == {<<a.context, a.step_key>> : a \in ConcArgs}

\* C11: however the add_locator calls of concurrently executing cases
\* interleave on one repository (one connection, one cursor), every
\* (context, step_key) has at most one active record and the versions of a
\* key are distinct and grow by exactly 1 with each insertion.
C11_ConcurrentAddLocator ==
    \A ck \in ConcKeys :
        LET rows == KeyRows(locators, ck[1], ck[2])
        IN /\ Cardinality(ActiveRows(locators, ck[1], ck[2])) <= 1
           /\ \A r, q \in rows : r # q => locators[r].version # locators[q].version
           /\ \A r \in rows : locators[r].version = Cardinality({q \in rows : q <= r})

C11_Witness ==
    \E t \in Threads :
        /\ t # owner
        /\ cpc[t] = "update"
        /\ cargs[t].step_key # cargs[owner].step_key
        /\ cpc[owner] = "commit"
        /\ Len(locators) = 2
        /\ locators[1].step_key = locators[2].step_key
        /\ locators[1].context = locators[2].context

\* ----- VersionManager (VersionSpec)

CallsOf(story) == {i \in 1..Len(vcalls) : vcalls[i].user_story = story}

IdsOf(cases) == {cases[i].identifier : i \in 1..Len(cases)}

\* C12: every add_version call inserts exactly one row, numbered 1 for the
\* story's first version and latest + 1 otherwise, also when the cases equal
\* those of the previous version; after n calls for a story its version
\* numbers are exactly 1..n.
C12_OneRowPerCall ==
    /\ Len(versions) = Len(vcalls)
    /\ vcalls # <<>> => Len(versions) = Len(prev_versions) + 1
    /\ \A i \in 1..Len(vcalls) :
          /\ vcalls[i].ret.version_id = i
          /\ versions[i].user_story = vcalls[i].user_story
          /\ versions[i].version_number = vcalls[i].ret.version_number
          /\ vcalls[i].ret.version_number
                = Cardinality({j \in CallsOf(vcalls[i].user_story) : j < i}) + 1
    /\ vcalls # <<>> =>
          LET story == vcalls[Len(vcalls)].user_story
              before == StoryRows(prev_versions, story)
          IN versions[Len(versions)].version_number
                = IF before = {} THEN 1
                  ELSE SetMax({prev_versions[r].version_number : r \in before}) + 1
    /\ \A story \in Stories :
          {versions[r].version_number : r \in StoryRows(versions, story)}
             = 1..Cardinality(CallsOf(story))

C12_Witness ==
    /\ Len(vcalls) = 3
    /\ vcalls[1].user_story = vcalls[3].user_story
    /\ vcalls[2].user_story # vcalls[1].user_story
    /\ vcalls[1].test_cases = vcalls[3].test_cases
    /\ vcalls[1].test_cases # <<>>
    /\ vcalls[3].ret.similarity = 100
    /\ vcalls[3].ret.version_number = 2
    /\ versions[3].version_number = 2

\* C13: the returned diff classifies the cases by identifier against the
\* immediately preceding version of the same story (added: only in the new
\* set; removed: only in the previous one; unchanged: in both), the three
\* identifier sets are pairwise disjoint and cover the new and the previous
\* set; old {A,B,C} and new {B,C,D} give added {D}, removed {A}, unchanged
\* {B,C}; for a story's first version every case is added.
C13_DiffByIdentifier ==
    /\ \A i \in 1..Len(vcalls) :
          LET earlier == {j \in CallsOf(vcalls[i].user_story) : j < i}
              new == vcalls[i].test_cases
              d == vcalls[i].ret.diff
          IN IF earlier = {}
             THEN /\ d.added = new
                  /\ d.removed = <<>>
                  /\ d.unchanged = <<>>
             ELSE LET old == vcalls[SetMax(earlier)].test_cases
                  IN /\ IdsOf(d.added) = IdsOf(new) \ IdsOf(old)
                     /\ IdsOf(d.removed) = IdsOf(old) \ IdsOf(new)
                     /\ IdsOf(d.unchanged) = IdsOf(new) \cap IdsOf(old)
                     /\ IdsOf(d.added) \cap IdsOf(d.removed) = {}
                     /\ IdsOf(d.added) \cap IdsOf(d.unchanged) = {}
                     /\ IdsOf(d.removed) \cap IdsOf(d.unchanged) = {}
                     /\ IdsOf(d.added) \cup IdsOf(d.unchanged) = IdsOf(new)
                     /\ IdsOf(d.removed) \cup IdsOf(d.unchanged) = IdsOf(old)
                     /\ Range(d.added) \cup Range(d.unchanged) \subseteq Range(new)
                     /\ Range(d.removed) \subseteq Range(old)
    /\ LET d == ComputeDiff(<<Case("A", "x"), Case("B", "x"), Case("C", "x")>>,
                            <<Case("B", "x"), Case("C", "x"), Case("D", "x")>>)
       IN /\ IdsOf(d.added) = {"D"}
          /\ IdsOf(d.removed) = {"A"}
          /\ IdsOf(d.unchanged) = {"B", "C"}

C13_Witness ==
    /\ Len(vcalls) = 3
    /\ vcalls[1].user_story = "login"
    /\ vcalls[2].user_story = "login"
    /\ vcalls[3].user_story = "login"
    /\ IdsOf(vcalls[1].test_cases) = {"A"}
    /\ IdsOf(vcalls[2].test_cases) = {"A", "B", "C"}
    /\ IdsOf(vcalls[3].test_cases) = {"B", "C", "D"}
    /\ IdsOf(vcalls[3].ret.diff.added) = {"D"}
    /\ IdsOf(vcalls[3].ret.diff.removed) = {"A"}
    /\ IdsOf(vcalls[3].ret.diff.unchanged) = {"B", "C"}

\* C14: add_version never modifies or deletes an existing row of any story
\* and leaves the numbering of the other stories alone, so get_test_cases of
\* a version id returns exactly the case list given to the add_version call
\* that created it, after any later add_version calls.
C14_AppendOnlyLog ==
    /\ Len(versions) >= Len(prev_versions)
    /\ \A r \in 1..Len(prev_versions) : versions[r] = prev_versions[r]
    /\ vcalls # <<>> =>
          \A story \in Stories \ {vcalls[Len(vcalls)].user_story} :
              StoryRows(versions, story) = StoryRows(prev_versions, story)
    /\ \A i \in 1..Len(vcalls) :
          get_test_cases(versions, vcalls[i].ret.version_id) = {vcalls[i].test_cases}

C14_Witness ==
    /\ Len(vcalls) = 3
    /\ vcalls[1].user_story = vcalls[2].user_story
    /\ vcalls[3].user_story # vcalls[1].user_story
    /\ vcalls[1].test_cases = vcalls[2].test_cases
    /\ Len(vcalls[1].test_cases) = 2
    /\ "None" \in IdsOf(vcalls[1].test_cases)
    /\ get_test_cases(versions, vcalls[1].ret.version_id) = {vcalls[1].test_cases}
    /\ get_test_cases(versions, 2) # get_test_cases(versions, 3)

\* ----- MCPRouter._classify (ClassifySpec)

\* C15: _classify returns one of ui, api, mobile, sql for every test case,
\* whatever its explicit type and whatever the translator answers, so routing
\* never fails with an unknown backend type.
C15_ClassifyInBackendTypes ==
    /\ mcp_type # NotClassified => mcp_type \in BackendTypes
    /\ kpc # "ValueError"

\* the precedence as the specification states it: explicit type, then the
\* translator, then (on a translator failure, an unrecognized answer or no
\* translator) the keywords, then 'api'
ClaimedCategory(type, translator, text, kwmap) ==
    IF type # <<>> THEN Lower(type)
    ELSE IF translator.present /\ ~translator.raises
            /\ translator.answer \in BackendTypes
         THEN translator.answer
    ELSE IF \E c \in 1..Len(Categories) :
               \E kw \in kwmap[c] : Contains(Lower(text), Lower(kw))
         THEN Categories[CHOOSE c \in 1..Len(Categories) :
                 /\ \E kw \in kwmap[c] : Contains(Lower(text), Lower(kw))
                 /\ \A d \in 1..(c - 1) :
                       ~\E kw \in kwmap[d] : Contains(Lower(text), Lower(kw))]
    ELSE <<"a", "p", "i">>

\* C16: _classify follows explicit type > translator > keywords > 'api': the
\* explicit type lower-cased; else the translator's answer; when the
\* translator raises or answers with an unrecognized category, the first of
\* ui, api, mobile, sql with a keyword occurring case-insensitively in the
\* step text; 'api' when no keyword matches.
C16_ClassifyPrecedence ==
    mcp_type # NotClassified =>
        mcp_type = ClaimedCategory(tc_type, llm, combined_text, keywords_map)

\* ----- MCPRouter.run_all (RouterSpec)

\* C17: over the lifetime of one router at most one executor instance is
\* constructed per backend type, and every case routed to the type uses that
\* instance, also when the run_test_case calls run on the worker pool.
C17_OneInstancePerType ==
    /\ \A t \in KnownTypes : constructed[t] <= 1
    /\ \A i \in 1..Len(batch) : inst[i] # 0 => inst[i] = 1

\* C18: run_all runs run_test_case exactly once for every case, sequentially
\* and on the pool, even when earlier cases raise; a raising case triggers
\* one Slack and one email alert call, does not keep the remaining cases from
\* being processed and does not make run_all raise.
C18_EveryCaseRunOnce ==
    /\ rapc # "raised"
    /\ \A i \in 1..Len(batch) :
          /\ runs[i] <= 1
          /\ slack[i] = email[i]
          /\ slack[i] <= 1
          /\ slack[i] = 1 => task[i] = "raised"
          /\ (i < ridx /\ rapc \in {"collect", "seq"}) =>
                /\ Finished(i)
                /\ slack[i] = (IF task[i] = "raised" THEN 1 ELSE 0)
    /\ rapc = "returned" =>
          \A i \in 1..Len(batch) :
              /\ runs[i] = 1
              /\ Finished(i)
              /\ slack[i] = (IF task[i] = "raised" THEN 1 ELSE 0)
              /\ email[i] = (IF task[i] = "raised" THEN 1 ELSE 0)

C18_Witness ==
    /\ rapc = "returned"
    /\ pooled
    /\ Len(batch) = 3
    /\ batch[1] = "ui" /\ task[1] = "raised" /\ slack[1] = 1 /\ email[1] = 1
    /\ batch[2] = "web" /\ task[2] = "raised" /\ slack[2] = 1
    /\ task[3] = "ok" /\ runs[3] = 1 /\ email[3] = 0

\* C19: when the cases are dispatched to the worker pool, no two of them are
\* inside run() of the same backend executor instance at the same time.
C19_NoSharedSession ==
    \A i, j \in 1..Len(batch) :
        (i # j /\ task[i] = "in_run" /\ task[j] = "in_run" /\ batch[i] = batch[j])
            => inst[i] # inst[j]

\* ----- UI steps: UIMCP and WebDriver (UiSpec)

\* C24: in UIMCP a step whose assertion fails (assert_text, assert_element)
\* is never reported successful: _execute_step does not return normally for
\* it, and a step that MCPBase.run ends as passed had its assertion hold.
C24_AssertionFailureNotSuccessful ==
    /\ ui_last.failure = "AssertionError" => ui_last.result = "raised"
    /\ (upc = "passed" /\ ui_step.action \in AssertActions) => ui_last.failure = "ok"

\* the fields the fallback heuristics read besides the selector
DescribedBy(step) ==
    {k \in 2..Len(HeuristicKeys) : ~Falsy(Field(step, HeuristicKeys[k]))}

\* the stored active locator of the step's key before the step ran
StoredBefore == get_locator(store0, "ui", compute_step_key(wstep))

\* the step went past the navigation branch of WebDriver._execute_step
WebResolved ==
    /\ uicomp = "WebDriver"
    /\ wpc = "done"
    /\ ~Falsy(wstep.action)
    /\ wstep.action # "goto"

\* no stored locator, no selector, no descriptive field, and a suggestion
SuggestionPath ==
    /\ WebResolved
    /\ StoredBefore = {}
    /\ Falsy(wstep.selector)
    /\ DescribedBy(wstep) = {}
    /\ ~Falsy(suggestion)

\* C28: UI self-healing never writes to the locator store, and
\* WebDriver._execute_step adds a locator version exactly on the suggestion
\* path: no stored active locator, no selector in the step, no descriptive
\* field, and a suggestion from the translator; on every other path the
\* table is as it was.
C28_StoreWrittenOnlyOnSuggestion ==
    /\ uicomp = "UIMCP" => (locators = store0 /\ clock = 1)
    /\ (uicomp = "WebDriver" /\ wpc = "done" /\ ~SuggestionPath) =>
          (locators = store0 /\ clock = 1)
    /\ SuggestionPath =>
          /\ Len(locators) = Len(store0) + 1
          /\ SubSeq(locators, 1, Len(store0)) = store0
          /\ locators[Len(locators)].context = "ui"
          /\ locators[Len(locators)].step_key = compute_step_key(wstep)
          /\ locators[Len(locators)].locator_type = "css"
          /\ locators[Len(locators)].locator_value = suggestion
          /\ locators[Len(locators)].is_active = 1

C28_Witness ==
    /\ SuggestionPath
    /\ store0 # <<>>
    /\ Len(locators) = 2
    /\ wresult = "raised"

C28_HealedWitness ==
    /\ uicomp = "UIMCP"
    /\ upc = "passed"
    /\ ui_last.healed_by = "alternative"
    /\ store0 # <<>>

\* C29: for a non-navigation step WebDriver._execute_step takes the selector
\* from (a) the stored active locator of the step's key, even when the step
\* has a selector, else (b) the step's selector, else (c) the first
\* non-empty descriptive field as a text selector, else (d) the translator's
\* suggestion; the translator is asked only when (a), (b), (c) gave nothing.
C29_SelectorResolutionOrder ==
    WebResolved =>
       /\ StoredBefore # {} =>
             /\ wselector = StoredSelector(CHOOSE st \in StoredBefore : TRUE)
             /\ ~llm_asked
       /\ (StoredBefore = {} /\ ~Falsy(wstep.selector)) =>
             /\ wselector = <<"", wstep.selector>>
             /\ ~llm_asked
       /\ (StoredBefore = {} /\ Falsy(wstep.selector) /\ DescribedBy(wstep) # {}) =>
             /\ \E k \in DescribedBy(wstep) :
                   /\ \A j \in DescribedBy(wstep) : k <= j
                   /\ wselector = <<"text=", Field(wstep, HeuristicKeys[k])>>
             /\ ~llm_asked
       /\ (StoredBefore = {} /\ Falsy(wstep.selector) /\ DescribedBy(wstep) = {}) =>
             /\ llm_asked
             /\ wselector = IF Falsy(suggestion) THEN NoSelector ELSE <<"", suggestion>>

C29_Witness ==
    /\ WebResolved
    /\ StoredBefore # {}
    /\ wstep.selector = "#s"
    /\ wselector = <<"xpath=", "//stored">>

\* ----- MobileMCP._execute_step (MobileSpec)

\* the stored active locator of the step's key before the step ran
MobStoredBefore ==
    get_locator(mob_store0, "mobile", LocatorRepo_compute_step_key(mob_step))

\* stored locator, step-provided locator, coordinate fallback
MobExpectedOrder ==
    (IF MobStoredBefore # {} THEN <<CHOOSE s \in MobStoredBefore : TRUE>> ELSE <<>>)
    \o (IF mob_step.locator # NoLocator THEN <<mob_step.locator>> ELSE <<>>)
    \o (IF mob_step.action \in CoordinateActions /\ mob_step.xy
        THEN <<CoordinateLocator>> ELSE <<>>)

\* a step of an action that works on a located element has run
MobRan ==
    /\ mob_pc = "done"
    /\ mob_step.action \in {"tap", "send_keys", "assert_text"}

\* the candidates are tried in the order stored, step-provided, coordinates,
\* and the first that succeeds is adopted
C30_CandidateOrder ==
    MobRan =>
       /\ Len(mob_tried) <= Len(MobExpectedOrder)
       /\ mob_tried = SubSeq(MobExpectedOrder, 1, Len(mob_tried))
       /\ \A k \in 1..Len(mob_tried) :
             (k \in mob_works /\ (mob_tried[k].type = "coordinates"
                                     => mob_step.action # "assert_text"))
                => (k = Len(mob_tried) /\ mob_chosen = mob_tried[k])
       /\ mob_chosen # NoLocator => mob_chosen = mob_tried[Len(mob_tried)]

\* after a successful step a version is added exactly when the adopted
\* candidate is not the coordinate fallback and differs from the stored one
C30_PersistedIffNew ==
    (MobRan /\ mob_result = "returned") =>
       IF mob_chosen.type # "coordinates" /\ mob_chosen \notin MobStoredBefore
       THEN /\ Len(locators) = Len(mob_store0) + 1
            /\ locators[Len(locators)].context = "mobile"
            /\ locators[Len(locators)].step_key = LocatorRepo_compute_step_key(mob_step)
            /\ locators[Len(locators)].locator_type = mob_chosen.type
            /\ locators[Len(locators)].locator_value = mob_chosen.value
            /\ locators[Len(locators)].is_active = 1
       ELSE locators = mob_store0

\* a failing step leaves the table as it was
C30_FailingStepWritesNothing ==
    (mob_pc = "done" /\ mob_result \in {"raised", "ValueError"}) => locators = mob_store0

\* C30: MobileMCP._execute_step tries the stored active locator, then the
\* step-provided locator, then the coordinate fallback, and adopts the first
\* that succeeds; after a successful step a version is added if and only if
\* the adopted candidate is not the coordinate fallback and differs from the
\* stored locator; a failing step never writes to the store.
C30_MobileLocatorPersistence ==
    /\ C30_CandidateOrder
    /\ C30_PersistedIffNew
    /\ C30_FailingStepWritesNothing

\* C31: a swipe step performs no locator resolution: no candidate locator
\* is looked up through the driver, and no locator version is added.
C31_SwipeBypassesLocators ==
    (mob_pc = "done" /\ mob_step.action = "swipe") =>
       /\ mob_tried = <<>>
       /\ mob_chosen = NoLocator
       /\ locators = mob_store0

\* the part of C31 that the code keeps: a swipe never writes to the store
C31_SwipeWritesNothing ==
    (mob_pc = "done" /\ mob_step.action = "swipe") => locators = mob_store0

\* ----- LLMAgent (LlmSpec)

\* the provider gave nothing usable: there is none, every chat call returned
\* nothing or raised, or the answer is neither a category nor JSON
NoUsableAnswer ==
    \/ ~llm_provider
    \/ llm_response = NoResponse
    \/ /\ llm_response.json = "invalid"
       /\ llm_request = "classify" => Lower(Strip(llm_response.text)) \notin BackendTypes
       /\ llm_request # "suggest_ui_locator"

ClaimedKey(step) ==
    LET action == IF step.action = Absent THEN "unknown" ELSE step.action
    IN IF step.selector # Absent THEN <<action, step.selector>>
       ELSE IF step.locator # NoLocator THEN <<action>> \o LocatorJson(step.locator)
       ELSE IF step.element # Absent THEN <<action, step.element>>
       ELSE IF step.label # Absent THEN <<action, step.label>>
       ELSE IF step.text # Absent THEN <<action, step.text>>
       ELSE IF step.value # Absent THEN <<action, step.value>>
       ELSE IF step.placeholder # Absent THEN <<action, step.placeholder>>
       ELSE IF step.target # Absent THEN <<action, step.target>>
       ELSE <<action>> \o StepJson(step)

\* C32: compute_step_key follows the order selector, locator, first present
\* of element, label, text, value, placeholder, target, whole step; and
\* LocatorRepo.compute_step_key and LocatorRepository.compute_step_key return
\* the same key for every step.
C32_StepKeysAgree ==
    key_pc = "done" =>
       /\ key_repository = ClaimedKey(key_step)
       /\ key_repo = ClaimedKey(key_step)
       /\ key_repo = key_repository

\* the part of C32 that holds: LocatorRepository follows the stated order
C32_RepositoryFollowsOrder ==
    key_pc = "done" => key_repository = ClaimedKey(key_step)

\* ----- wait_for_page_stable (WaitSpec)

\* C33: wait_for_page_stable never raises: a failing network-idle wait and
\* a failing or timed-out wait on a busy-indicator are swallowed, and every
\* configured spinner and overlay selector is waited on, in list order,
\* whatever happened to the earlier ones.
C33_PageStableNeverRaises ==
    /\ wait_pc # "raised"
    /\ wait_calls = SubSeq(wait_spinners \o wait_overlays, 1, Len(wait_calls))
    /\ wait_pc = "loop" => Len(wait_calls) = wait_idx - 1
    /\ (wait_pc = "returned" /\ wait_page) =>
          /\ Len(wait_network) = 1
          /\ wait_calls = wait_spinners \o wait_overlays
    /\ (wait_pc = "returned" /\ ~wait_page) => (wait_network = <<>> /\ wait_calls = <<>>)

C33_Witness ==
    /\ wait_pc = "returned"
    /\ wait_network = <<"timeout">>
    /\ Len(wait_spinners) = 2
    /\ Len(wait_overlays) = 1
    /\ wait_failed = {1, 2}
    /\ Len(wait_calls) = 3

\* ----- TestExecutor shared by run_version and run_all (PoolSpec)

\* C34: when run_all is submitted to the TestExecutor it dispatches its
\* cases to, every submitted case is eventually executed and every run_all
\* ends, for every pool size and any number of run requests; a shutdown
\* that was called returns.
C34_RunAllReturns ==
    /\ \A r \in Runs : (run_pc[r] = "queued") ~> (run_pc[r] \in {"returned", "raised"})
    /\ \A r \in Runs : \A i \in 1..MaxRunCases :
          (Len(run_futures[r]) >= i) ~> (Len(run_futures[r]) >= i /\ run_futures[r][i] # "pending")
    /\ (pool_shutdown = "waiting") ~> (pool_shutdown = "returned")

\* every worker thread is inside run_all waiting for a future whose work
\* item is still in the queue: no step of the pool is possible any more
PoolStarved ==
    /\ pool_queue # <<>>
    /\ \A w \in 1..pool_size :
          /\ pool_worker[w].kind = "run_all"
          /\ run_pc[pool_worker[w].run] = "waiting"
          /\ run_waited[pool_worker[w].run] < Len(run_futures[pool_worker[w].run])
          /\ run_futures[pool_worker[w].run][run_waited[pool_worker[w].run] + 1] = "pending"

\* ----- add_version from interleaving threads (VersionConcSpec)

\* C35: add_version calls for the same user_story that interleave on the
\* shared connection still store distinct version_numbers: the numbers of
\* a story's rows are 1..n, each once.
C35_DistinctVersionNumbers ==
    \A story \in Stories :
        LET rows == {r \in 1..Len(vt_rows) : vt_rows[r].user_story = story}
        IN /\ \A a, b \in rows : a # b => vt_rows[a].version_number # vt_rows[b].version_number
           /\ {vt_rows[r].version_number : r \in rows} = 1..Cardinality(rows)

\* two overlapping calls for one story have both inserted
C35_Overlapped ==
    /\ vt_overlap
    /\ \A t \in VersionThreads : vt_pc[t] = "idle"
    /\ Len(vt_rows) = 2

\* ----- get_locator after add_locator (LocatorSpec)

\* C36: after any sequence of add_locator calls, get_locator(context,
\* step_key) returns the type and value given to the most recent successful
\* add_locator for exactly that key, and None when none was ever added for
\* it: a successful call makes its locator the answer for its key, no call
\* changes the answer for another key, and a key without rows answers None.
C36_GetReturnsLatestAdd ==
    /\ \A ck \in AllKeys :
          LET rows == KeyRows(locators, ck[1], ck[2])
          IN IF rows = {}
             THEN get_locator(locators, ck[1], ck[2]) = {}
             ELSE get_locator(locators, ck[1], ck[2])
                     = {[type |-> locators[SetMax(rows)].locator_type,
                         value |-> locators[SetMax(rows)].locator_value]}
    /\ last_add.result = "ok" =>
          get_locator(locators, last_add.context, last_add.step_key) = {last_add.locator}
    /\ last_add.result # "none" =>
          \A ck \in AllKeys :
              (ck # <<last_add.context, last_add.step_key>> \/ last_add.result # "ok")
                 => get_locator(locators, ck[1], ck[2])
                       = get_locator(prev_locators, ck[1], ck[2])

C36_Witness ==
    /\ last_add.result = "ok"
    /\ get_locator(prev_locators, last_add.context, last_add.step_key) # {}
    /\ get_locator(prev_locators, last_add.context, last_add.step_key) # {last_add.locator}
    /\ get_locator(locators, last_add.context, last_add.step_key) = {last_add.locator}
    /\ \E ck \in AllKeys : get_locator(locators, ck[1], ck[2]) = {}
    /\ \E ck \in AllKeys :
          /\ ck # <<last_add.context, last_add.step_key>>
          /\ get_locator(locators, ck[1], ck[2]) # {}

\* C37: add_locator with a locator whose type or value is missing or empty
\* raises ValueError and leaves the store unchanged: no record is
\* deactivated, no version is consumed, and get_locator answers as before.
C37_InvalidLocatorRejected ==
    /\ (last_add.result # "none"
          /\ (last_add.locator.type = "" \/ last_add.locator.value = ""))
          => last_add.result = "ValueError"
    /\ last_add.result = "ValueError" =>
          /\ locators = prev_locators
          /\ \A ck \in AllKeys :
                /\ ActiveRows(locators, ck[1], ck[2]) = ActiveRows(prev_locators, ck[1], ck[2])
                /\ NextVersion(locators, ck[1], ck[2]) = NextVersion(prev_locators, ck[1], ck[2])
                /\ get_locator(locators, ck[1], ck[2]) = get_locator(prev_locators, ck[1], ck[2])

C37_Witness ==
    /\ last_add.result = "ValueError"
    /\ last_add.locator.value = ""
    /\ last_add.locator.type # ""
    /\ get_locator(locators, last_add.context, last_add.step_key) # {}
    /\ Len(locators) = 2

\* ----- depends_on without a recorded step (DriverSpec)

\* C38: a step whose depends_on does not name an already recorded step of
\* the run (its own index, a later index, an index outside the step list)
\* is executed as if it had no dependency; a step is skipped for its
\* dependency only when the referenced step was recorded failed or skipped.
C38_UnrecordedDependencyIgnored ==
    \A k \in 0..(Len(run_steps) - 1) :
        LET dep == steps[k + 1].depends_on
            unpassed == \E i \in dep : i < k /\ run_steps[i + 1].status \in {"failed", "skipped"}
        IN /\ (\A i \in dep : i >= k) => k \in invoked
           /\ (\A i \in dep : i >= k) => run_steps[k + 1].message # "depends_on"
           /\ run_steps[k + 1].message = "depends_on" <=> unpassed
           /\ k \in invoked <=> ~unpassed

C38_Witness ==
    /\ Len(steps) = 3
    /\ Len(run_steps) = 3
    /\ steps[1].depends_on = {0}
    /\ steps[2].depends_on = {2}
    /\ steps[3].depends_on = {0}
    /\ run_steps[1].status = "failed"
    /\ run_steps[2].status = "passed"
    /\ run_steps[3].message = "depends_on"
    /\ invoked = {0, 1}

\* ----- _self_heal that raises (McpSpec)

\* C39: if _self_heal itself raises, run treats the heal as unsuccessful:
\* the failed attempt counts toward max_retries, the heal's exception never
\* leaves run, and when the retries are exhausted the exception re-raised
\* is the step's own execution error.
C39_RaisingHealIsUnsuccessful ==
    /\ raised_exc # "self_heal"
    /\ mpc = "raised" <=> raised_exc = "execute_step"
    /\ last_heal = "raise" =>
          /\ attempt >= 1
          /\ unhealed[midx] >= 1
          /\ mpc \in {"exec", "raised"}
          /\ mpc = "raised" <=> attempt >= max_retries
          /\ mpc = "exec" => execs[midx] = healed[midx] + unhealed[midx]

C39_Witness ==
    /\ mpc = "raised"
    /\ last_heal = "raise"
    /\ max_retries = 2
    /\ attempt = 2
    /\ unhealed[midx] = 2
    /\ healed[midx] = 0
    /\ raised_exc = "execute_step"

\* ============================================================ specifications

DriverSpecInit == DriverInit /\ McpIdle /\ LocIdle /\ ConcIdle /\ VerIdle /\ ClsIdle /\ RtrIdle /\ UiIdle /\ MobIdle /\ LlmIdle /\ KeyIdle /\ WaitIdle /\ PoolIdle /\ VtIdle
McpSpecInit == DriverIdle /\ McpInit /\ LocIdle /\ ConcIdle /\ VerIdle /\ ClsIdle /\ RtrIdle /\ UiIdle /\ MobIdle /\ LlmIdle /\ KeyIdle /\ WaitIdle /\ PoolIdle /\ VtIdle
LocatorSpecInit == DriverIdle /\ McpIdle /\ LocInit /\ ConcIdle /\ VerIdle /\ ClsIdle /\ RtrIdle /\ UiIdle /\ MobIdle /\ LlmIdle /\ KeyIdle /\ WaitIdle /\ PoolIdle /\ VtIdle
LocatorConcSpecInit == DriverIdle /\ McpIdle /\ ConcInit /\ VerIdle /\ ClsIdle /\ RtrIdle /\ UiIdle /\ MobIdle /\ LlmIdle /\ KeyIdle /\ WaitIdle /\ PoolIdle /\ VtIdle
VersionSpecInit == DriverIdle /\ McpIdle /\ LocIdle /\ ConcIdle /\ VerInit /\ ClsIdle /\ RtrIdle /\ UiIdle /\ MobIdle /\ LlmIdle /\ KeyIdle /\ WaitIdle /\ PoolIdle /\ VtIdle
ClassifySpecInit == DriverIdle /\ McpIdle /\ LocIdle /\ ConcIdle /\ VerIdle /\ ClsInit /\ RtrIdle /\ UiIdle /\ MobIdle /\ LlmIdle /\ KeyIdle /\ WaitIdle /\ PoolIdle /\ VtIdle
UiSpecInit == DriverIdle /\ McpIdle /\ UiInit /\ ConcIdle /\ VerIdle /\ ClsIdle /\ RtrIdle /\ MobIdle /\ LlmIdle /\ KeyIdle /\ WaitIdle /\ PoolIdle /\ VtIdle
MobileSpecInit == DriverIdle /\ McpIdle /\ MobInit /\ ConcIdle /\ VerIdle /\ ClsIdle /\ RtrIdle /\ UiIdle /\ LlmIdle /\ KeyIdle /\ WaitIdle /\ PoolIdle /\ VtIdle
LlmSpecInit == DriverIdle /\ McpIdle /\ LocIdle /\ ConcIdle /\ VerIdle /\ ClsIdle /\ RtrIdle /\ UiIdle /\ MobIdle /\ LlmInit /\ KeyIdle /\ WaitIdle /\ PoolIdle /\ VtIdle
KeySpecInit == DriverIdle /\ McpIdle /\ LocIdle /\ ConcIdle /\ VerIdle /\ ClsIdle /\ RtrIdle /\ UiIdle /\ MobIdle /\ LlmIdle /\ KeyInit /\ WaitIdle /\ PoolIdle /\ VtIdle
WaitSpecInit == DriverIdle /\ McpIdle /\ LocIdle /\ ConcIdle /\ VerIdle /\ ClsIdle /\ RtrIdle /\ UiIdle /\ MobIdle /\ LlmIdle /\ KeyIdle /\ WaitInit /\ PoolIdle /\ VtIdle
PoolSpecInit == DriverIdle /\ McpIdle /\ LocIdle /\ ConcIdle /\ VerIdle /\ ClsIdle /\ RtrIdle /\ UiIdle /\ MobIdle /\ LlmIdle /\ KeyIdle /\ WaitIdle /\ PoolInit /\ VtIdle
VersionConcSpecInit == DriverIdle /\ McpIdle /\ LocIdle /\ ConcIdle /\ VerIdle /\ ClsIdle /\ RtrIdle /\ UiIdle /\ MobIdle /\ LlmIdle /\ KeyIdle /\ WaitIdle /\ PoolIdle /\ VtInit
RouterSpecInit == DriverIdle /\ McpIdle /\ LocIdle /\ ConcIdle /\ VerIdle /\ ClsIdle /\ RtrInit /\ UiIdle /\ MobIdle /\ LlmIdle /\ KeyIdle /\ WaitIdle /\ PoolIdle /\ VtIdle

DriverSpecNext ==
    \/ StartRun /\ UNCHANGED <<mcpVars, locVars, concVars, verVars, clsVars, rtrVars, uiVars, mobVars, llmVars, keyVars, waitVars, poolVars, vtVars>>
    \/ \E outcome \in Outcomes : RunStep(outcome) /\ UNCHANGED <<mcpVars, locVars, concVars, verVars, clsVars, rtrVars, uiVars, mobVars, llmVars, keyVars, waitVars, poolVars, vtVars>>
    \/ FinishRun /\ UNCHANGED <<mcpVars, locVars, concVars, verVars, clsVars, rtrVars, uiVars, mobVars, llmVars, keyVars, waitVars, poolVars, vtVars>>

McpSpecNext ==
    \/ \E ok \in BOOLEAN : ExecuteStep(ok) /\ UNCHANGED <<drvVars, locVars, concVars, verVars, clsVars, rtrVars, uiVars, mobVars, llmVars, keyVars, waitVars, poolVars, vtVars>>
    \/ \E h \in {"True", "False", "raise"} : SelfHeal(h) /\ UNCHANGED <<drvVars, locVars, concVars, verVars, clsVars, rtrVars, uiVars, mobVars, llmVars, keyVars, waitVars, poolVars, vtVars>>

LocatorSpecNext ==
    \E ctx \in Contexts, key \in StepKeys, loc \in LocatorArgs :
        AddLocator(ctx, key, loc) /\ UNCHANGED <<drvVars, mcpVars, concVars, verVars, clsVars, rtrVars, uiVars, mobVars, llmVars, keyVars, waitVars, poolVars, vtVars>>

LocatorConcSpecNext ==
    \/ \E t \in Threads, a \in ConcArgs : ConcCall(t, a) /\ UNCHANGED <<drvVars, mcpVars, verVars, clsVars, rtrVars, uiVars, mobVars, llmVars, keyVars, waitVars, poolVars, vtVars>>
    \/ \E t \in Threads : ConcUpdate(t) /\ UNCHANGED <<drvVars, mcpVars, verVars, clsVars, rtrVars, uiVars, mobVars, llmVars, keyVars, waitVars, poolVars, vtVars>>
    \/ \E t \in Threads : ConcSelect(t) /\ UNCHANGED <<drvVars, mcpVars, verVars, clsVars, rtrVars, uiVars, mobVars, llmVars, keyVars, waitVars, poolVars, vtVars>>
    \/ \E t \in Threads : ConcFetch(t) /\ UNCHANGED <<drvVars, mcpVars, verVars, clsVars, rtrVars, uiVars, mobVars, llmVars, keyVars, waitVars, poolVars, vtVars>>
    \/ \E t \in Threads : ConcInsert(t) /\ UNCHANGED <<drvVars, mcpVars, verVars, clsVars, rtrVars, uiVars, mobVars, llmVars, keyVars, waitVars, poolVars, vtVars>>
    \/ \E t \in Threads : ConcCommit(t) /\ UNCHANGED <<drvVars, mcpVars, verVars, clsVars, rtrVars, uiVars, mobVars, llmVars, keyVars, waitVars, poolVars, vtVars>>

VersionSpecNext ==
    \E story \in Stories, cases \in CaseLists :
        AddVersion(story, cases) /\ UNCHANGED <<drvVars, mcpVars, locVars, concVars, clsVars, rtrVars, uiVars, mobVars, llmVars, keyVars, waitVars, poolVars, vtVars>>

ClassifySpecNext ==
    \/ ClassifyCase /\ UNCHANGED <<drvVars, mcpVars, locVars, concVars, verVars, rtrVars, uiVars, mobVars, llmVars, keyVars, waitVars, poolVars, vtVars>>
    \/ GetMcpType /\ UNCHANGED <<drvVars, mcpVars, locVars, concVars, verVars, rtrVars, uiVars, mobVars, llmVars, keyVars, waitVars, poolVars, vtVars>>

RouterSpecNext ==
    \/ Submit /\ UNCHANGED <<drvVars, mcpVars, locVars, concVars, verVars, clsVars, uiVars, mobVars, llmVars, keyVars, waitVars, poolVars, vtVars>>
    \/ \E i \in 1..MaxBatch : StartTask(i) /\ UNCHANGED <<drvVars, mcpVars, locVars, concVars, verVars, clsVars, uiVars, mobVars, llmVars, keyVars, waitVars, poolVars, vtVars>>
    \/ Collect /\ UNCHANGED <<drvVars, mcpVars, locVars, concVars, verVars, clsVars, uiVars, mobVars, llmVars, keyVars, waitVars, poolVars, vtVars>>
    \/ SeqStart /\ UNCHANGED <<drvVars, mcpVars, locVars, concVars, verVars, clsVars, uiVars, mobVars, llmVars, keyVars, waitVars, poolVars, vtVars>>
    \/ SeqHandle /\ UNCHANGED <<drvVars, mcpVars, locVars, concVars, verVars, clsVars, uiVars, mobVars, llmVars, keyVars, waitVars, poolVars, vtVars>>
    \/ ReturnRunAll /\ UNCHANGED <<drvVars, mcpVars, locVars, concVars, verVars, clsVars, uiVars, mobVars, llmVars, keyVars, waitVars, poolVars, vtVars>>
    \/ \E i \in 1..MaxBatch : GetMcpCheck(i) /\ UNCHANGED <<drvVars, mcpVars, locVars, concVars, verVars, clsVars, uiVars, mobVars, llmVars, keyVars, waitVars, poolVars, vtVars>>
    \/ \E i \in 1..MaxBatch : GetMcpConstruct(i) /\ UNCHANGED <<drvVars, mcpVars, locVars, concVars, verVars, clsVars, uiVars, mobVars, llmVars, keyVars, waitVars, poolVars, vtVars>>
    \/ \E i \in 1..MaxBatch : GetMcpReturn(i) /\ UNCHANGED <<drvVars, mcpVars, locVars, concVars, verVars, clsVars, uiVars, mobVars, llmVars, keyVars, waitVars, poolVars, vtVars>>
    \/ \E i \in 1..MaxBatch, ok \in BOOLEAN : McpRun(i, ok) /\ UNCHANGED <<drvVars, mcpVars, locVars, concVars, verVars, clsVars, uiVars, mobVars, llmVars, keyVars, waitVars, poolVars, vtVars>>

UiSpecNext ==
    \/ \E op \in TryOps, alt1 \in 0..MaxAlternatives, alt2 \in 0..MaxAlternatives, ai \in AiOutcomes, body \in BOOLEAN :
          UiExecuteStep(op, alt1, alt2, ai, body) /\ UNCHANGED <<drvVars, mcpVars, concVars, verVars, clsVars, rtrVars, locVars, mobVars, llmVars, keyVars, waitVars, poolVars, vtVars>>
    \/ \E alt \in 0..MaxAlternatives, ai \in AiOutcomes, body \in BOOLEAN :
          UiEngineHeal(alt, ai, body) /\ UNCHANGED <<drvVars, mcpVars, concVars, verVars, clsVars, rtrVars, locVars, mobVars, llmVars, keyVars, waitVars, poolVars, vtVars>>
    \/ \E ok \in BOOLEAN : WebExecuteStep(ok) /\ UNCHANGED <<drvVars, mcpVars, concVars, verVars, clsVars, rtrVars, mobVars, llmVars, keyVars, waitVars, poolVars, vtVars>>

MobileSpecNext ==
    \E works \in SUBSET (1..MaxCandidates), post \in BOOLEAN, other \in BOOLEAN :
        MobileExecuteStep(works, post, other)
            /\ UNCHANGED <<drvVars, mcpVars, concVars, verVars, clsVars, rtrVars, uiVars, llmVars, keyVars, waitVars, poolVars, vtVars>>

LlmSpecNext ==
    \/ LlmStart /\ UNCHANGED <<drvVars, mcpVars, locVars, concVars, verVars, clsVars, rtrVars, uiVars, mobVars, keyVars, waitVars, poolVars, vtVars>>
    \/ \E outcome \in ChatOutcomes : LlmChat(outcome) /\ UNCHANGED <<drvVars, mcpVars, locVars, concVars, verVars, clsVars, rtrVars, uiVars, mobVars, keyVars, waitVars, poolVars, vtVars>>
    \/ LlmFinish /\ UNCHANGED <<drvVars, mcpVars, locVars, concVars, verVars, clsVars, rtrVars, uiVars, mobVars, keyVars, waitVars, poolVars, vtVars>>

KeySpecNext ==
    ComputeKeys /\ UNCHANGED <<drvVars, mcpVars, locVars, concVars, verVars, clsVars, rtrVars, uiVars, mobVars, llmVars, waitVars, poolVars, vtVars>>

WaitSpecNext ==
    \/ \E outcome \in WaitOutcomes : WaitNetworkIdle(outcome) /\ UNCHANGED <<drvVars, mcpVars, locVars, concVars, verVars, clsVars, rtrVars, uiVars, mobVars, llmVars, keyVars, poolVars, vtVars>>
    \/ \E outcome \in WaitOutcomes : WaitIndicator(outcome) /\ UNCHANGED <<drvVars, mcpVars, locVars, concVars, verVars, clsVars, rtrVars, uiVars, mobVars, llmVars, keyVars, poolVars, vtVars>>

PoolSpecNext ==
    \/ \E r \in Runs, n \in 0..MaxRunCases : RunVersion(r, n) /\ UNCHANGED <<drvVars, mcpVars, locVars, concVars, verVars, clsVars, rtrVars, uiVars, mobVars, llmVars, keyVars, waitVars, vtVars>>
    \/ \E w \in PoolWorkers : WorkerTake(w) /\ UNCHANGED <<drvVars, mcpVars, locVars, concVars, verVars, clsVars, rtrVars, uiVars, mobVars, llmVars, keyVars, waitVars, vtVars>>
    \/ \E w \in PoolWorkers : RunAllSubmit(w) /\ UNCHANGED <<drvVars, mcpVars, locVars, concVars, verVars, clsVars, rtrVars, uiVars, mobVars, llmVars, keyVars, waitVars, vtVars>>
    \/ \E w \in PoolWorkers : RunAllWait(w) /\ UNCHANGED <<drvVars, mcpVars, locVars, concVars, verVars, clsVars, rtrVars, uiVars, mobVars, llmVars, keyVars, waitVars, vtVars>>
    \/ \E w \in PoolWorkers, outcome \in {"done", "failed"} : RunCase(w, outcome) /\ UNCHANGED <<drvVars, mcpVars, locVars, concVars, verVars, clsVars, rtrVars, uiVars, mobVars, llmVars, keyVars, waitVars, vtVars>>
    \/ ShutdownStart /\ UNCHANGED <<drvVars, mcpVars, locVars, concVars, verVars, clsVars, rtrVars, uiVars, mobVars, llmVars, keyVars, waitVars, vtVars>>
    \/ ShutdownReturn /\ UNCHANGED <<drvVars, mcpVars, locVars, concVars, verVars, clsVars, rtrVars, uiVars, mobVars, llmVars, keyVars, waitVars, vtVars>>

VersionConcSpecNext ==
    \/ \E t \in VersionThreads, story \in Stories : VtCall(t, story) /\ UNCHANGED <<drvVars, mcpVars, locVars, concVars, verVars, clsVars, rtrVars, uiVars, mobVars, llmVars, keyVars, waitVars, poolVars>>
    \/ \E t \in VersionThreads : VtRead(t) /\ UNCHANGED <<drvVars, mcpVars, locVars, concVars, verVars, clsVars, rtrVars, uiVars, mobVars, llmVars, keyVars, waitVars, poolVars>>
    \/ \E t \in VersionThreads : VtInsert(t) /\ UNCHANGED <<drvVars, mcpVars, locVars, concVars, verVars, clsVars, rtrVars, uiVars, mobVars, llmVars, keyVars, waitVars, poolVars>>

DriverSpec == DriverSpecInit /\ [][DriverSpecNext]_vars
McpSpec == McpSpecInit /\ [][McpSpecNext]_vars
LocatorSpec == LocatorSpecInit /\ [][LocatorSpecNext]_vars
LocatorConcSpec == LocatorConcSpecInit /\ [][LocatorConcSpecNext]_vars
VersionSpec == VersionSpecInit /\ [][VersionSpecNext]_vars
ClassifySpec == ClassifySpecInit /\ [][ClassifySpecNext]_vars
RouterSpec == RouterSpecInit /\ [][RouterSpecNext]_vars
UiSpec == UiSpecInit /\ [][UiSpecNext]_vars
MobileSpec == MobileSpecInit /\ [][MobileSpecNext]_vars
LlmSpec == LlmSpecInit /\ [][LlmSpecNext]_vars
KeySpec == KeySpecInit /\ [][KeySpecNext]_vars
WaitSpec == WaitSpecInit /\ [][WaitSpecNext]_vars
VersionConcSpec == VersionConcSpecInit /\ [][VersionConcSpecNext]_vars
\* the worker threads and the thread that called shutdown are scheduled by
\* the operating system: a step of theirs that stays possible is taken;
\* requests and the start of the shutdown are the environment's choice
PoolFairness ==
    /\ WF_poolVars(\E w \in PoolWorkers : WorkerTake(w))
    /\ WF_poolVars(\E w \in PoolWorkers : RunAllSubmit(w))
    /\ WF_poolVars(\E w \in PoolWorkers : RunAllWait(w))
    /\ WF_poolVars(\E w \in PoolWorkers, outcome \in {"done", "failed"} : RunCase(w, outcome))
    /\ WF_poolVars(ShutdownReturn)
PoolSpec == PoolSpecInit /\ [][PoolSpecNext]_vars /\ PoolFairness

====
